---- MODULE Spec2Model ----
(***************************************************************************)
(* Model of devaloi/ask: the provider adapters (internal/provider) that    *)
(* decode a vendor's streaming reply into tokens on a channel, and the     *)
(* conversation store (internal/history) that persists conversations.      *)
(*                                                                         *)
(* SpecChat  : one Chat call (OpenAI or Anthropic adapter), its consumer   *)
(*             and the owner of the request context.                       *)
(* SpecStore : SaveConversation / GetConversation on the SQLite tables,    *)
(*             driven by a caller that holds in-memory Conversations.      *)
(***************************************************************************)
EXTENDS Integers, Sequences, FiniteSets, TLC

VARIABLES
    \* ---- provider adapters ----
    vendor,      \* which adapter runs: "openai" | "anthropic" ("none" in SpecStore)
    body,        \* the lines of the HTTP response body, in wire order
    pos,         \* number of lines bufio.Scanner has returned so far
    pc,          \* position of the Chat call
    resp,        \* status and error text of the HTTP response (status 0: none yet)
    ctxDone,     \* the request context has been cancelled
    eventType,   \* Anthropic.parseSSEStream's local eventType
    tok,         \* the token the pending channel send carries
    stream,      \* the buffered output channel (tokens queued, oldest first)
    closed,      \* how many times close(stream) has run
    result,      \* the error Chat returned
    received,    \* the tokens the consumer has taken from the channel
    cancelMark,  \* history: what the world looked like when cancel() was called
    \* ---- conversation store ----
    conversations, \* committed rows of table conversations (row i has id i)
    messages,      \* committed rows of table messages (row i has id i)
    tx,            \* the open transaction of the running SaveConversation
    mem,           \* the caller's in-memory Conversation values
    ret,           \* what the last SaveConversation on each value returned
    dirty,         \* history: the value changed since its last successful save
    now,           \* the wall clock read by time.Now()
    begun,         \* the SaveConversation calls that have begun their
                   \* transaction and not yet executed a statement
    \* ---- sse.Reader ----
    input,         \* the bytes the underlying io.Reader will deliver, in order
    src,           \* the underlying reader: "open" | "eof" | "failed"
    fed,           \* number of bytes read into the scanner's buffer so far
    start,         \* number of bytes the scanner has consumed as lines
    currentEvent,  \* Read's local currentEvent
    events,        \* the events channel (events queued, oldest first)
    delivered,     \* the events the consumer has taken from the channel
    rpc,           \* position of the Read call
    rerr,          \* the error Read returned
    rctx,          \* the reader's context has been cancelled
    rmark,         \* history: what the world looked like when cancel() was called
    eventsClosed,  \* how many times the events channel has been closed
    \* ---- the command (cmd) around a Chat call ----
    caller,        \* position of runOneShot ("streaming" | "done") or of
                   \* runInteractive ("prompt" | "streaming" | "waiting" |
                   \* "quit" | "killed")
    history,       \* runInteractive's messages, the conversation so far
    systemPrompt,  \* runInteractive's systemPrompt ("": none)
    turns,         \* history: number of turns started in the session
    turnStart,     \* history: the messages when the current turn started
    \* ---- stream.Writer ----
    isTTY,         \* the Writer's isTTY field
    sink,          \* the bytes the Writer's out has received
    tokens,        \* history: the tokens passed to Write so far
    flushed,       \* history: Flush has been called
    werr,          \* history: "failed" once out has refused a write
    \* ---- calls of the pure helpers ----
    arg,           \* the argument of the call
    value          \* what the call returned

chatVars  == <<vendor, body, pos, pc, resp, ctxDone, eventType, tok, stream,
               closed, result, received, cancelMark>>
storeVars == <<conversations, messages, tx, mem, ret, dirty, now, begun>>
sseVars   == <<input, src, fed, start, currentEvent, events, delivered, rpc,
               rerr, rctx, rmark, eventsClosed>>
writerVars == <<isTTY, sink, tokens, flushed, werr>>
callVars  == <<arg, value>>
loopVars  == <<history, systemPrompt, turns, turnStart>>
vars      == <<vendor, body, pos, pc, resp, ctxDone, eventType, tok, stream,
               closed, result, received, cancelMark,
               conversations, messages, tx, mem, ret, dirty, now,
               input, src, fed, start, currentEvent, events, delivered, rpc,
               rerr, rctx, rmark, eventsClosed,
               caller, isTTY, sink, tokens, flushed, werr, arg, value,
               history, systemPrompt, turns, turnStart>>

(***************************************************************************)
(* Bounds                                                                  *)
(***************************************************************************)
MaxLines == 3
ChanCap == 2
\* capacity of the token channel runInteractive makes for a turn
TurnCap == 1

\* the capacity of the channel Chat sends on is its creator's choice
Capacity == IF turns = 0 THEN ChanCap ELSE TurnCap

(***************************************************************************)
(* Provider adapters                                                       *)
(***************************************************************************)
Tokens == {"A", "B"}

\* A response line, by the text it stands for:
\*   <<"blank">>              ""
\*   <<"comment">>            ": keep-alive"
\*   <<"event", n>>           "event: " n
\*   <<"data", "[DONE]">>     "data: [DONE]"
\*   <<"data", "bad">>        "data: {not json"
\*   <<"data", "chunk", t>>   data: {"choices":[{"delta":{"content":t}}]}
\*   <<"data", "nochoice">>   data: {"choices":[]}
\*   <<"data", "delta", t>>   data: {"type":"content_block_delta","delta":{"type":"text_delta","text":t}}
\*   <<"data", "nodelta">>    data: {"type":"ping"}
\*   <<"data", "baddelta">>   data: {"type":"content_block_delta","delta":"x"}
OpenAILines ==
    {<<"blank">>, <<"comment">>, <<"event", "ping">>, <<"data", "[DONE]">>,
     <<"data", "bad">>, <<"data", "nochoice">>, <<"data", "chunk", "">>}
    \cup {<<"data", "chunk", t>> : t \in Tokens}

AnthropicLines ==
    {<<"blank">>, <<"comment">>, <<"data", "bad">>, <<"data", "nodelta">>,
     <<"data", "baddelta">>, <<"data", "delta", "">>}
    \cup {<<"event", n>> : n \in {"content_block_delta", "message_stop", "ping"}}
    \cup {<<"data", "delta", t>> : t \in Tokens}

LinesOf(v) == IF v = "openai" THEN OpenAILines ELSE AnthropicLines

BoundedSeq(S, n) == UNION {[1..k -> S] : k \in 0..n}

Statuses == {200, 201, 204, 304, 400, 401, 404, 429, 499, 500, 503}
Bodies == {"b1", "b2"}

\* error values
Nil == [kind |-> "nil", status |-> 0, body |-> ""]
Pending == [kind |-> "pending", status |-> 0, body |-> ""]
Canceled == [kind |-> "canceled", status |-> 0, body |-> ""]
Transport(what) == [kind |-> what, status |-> 0, body |-> ""]

\* strings.HasPrefix(line, "data: ") / "event: "
IsData(l) == l[1] = "data"
IsEvent(l) == l[1] = "event"

\* defer close(stream)
CloseStreamNever(n) == n
CloseStream(n) == n + 1

\* the non-blocking select on ctx.Done() at the top of each loop iteration
LineCheckSkipped(done) == FALSE
LineCheck(done) == done

\* if ctx.Err() != nil { return ctx.Err() }; return fmt.Errorf(what, err)
CtxErrOrWraps(done, what) == Transport(what)
CtxErrOr(done, what) == IF done THEN Canceled ELSE Transport(what)

\* handleHTTPError (both adapters: the same mapping, vendor-specific text)
handleHTTPErrorOffByOne(s, b) ==
    IF s = 401 THEN [kind |-> "auth", status |-> 0, body |-> ""]
    ELSE IF s = 429 THEN [kind |-> "ratelimit", status |-> 0, body |-> ""]
    ELSE IF s > 500 THEN [kind |-> "service", status |-> 0, body |-> ""]
    ELSE [kind |-> "api", status |-> s, body |-> b]
handleHTTPError(s, b) ==
    IF s = 401 THEN [kind |-> "auth", status |-> 0, body |-> ""]
    ELSE IF s = 429 THEN [kind |-> "ratelimit", status |-> 0, body |-> ""]
    ELSE IF s >= 500 THEN [kind |-> "service", status |-> 0, body |-> ""]
    ELSE [kind |-> "api", status |-> s, body |-> b]

\* resp.StatusCode != http.StatusOK
StatusOK == 200

\* json.Unmarshal into openAIStreamResponse, then Choices[0].Delta.Content;
\* "" when the payload is not JSON, has no choice or no content
OpenAIContentJunk(l) ==
    IF l[2] = "chunk" THEN l[3] ELSE "A"
OpenAIContent(l) ==
    IF l[2] = "chunk" THEN l[3] ELSE ""

\* json.Unmarshal into anthropicSSEEvent, then of Delta into anthropicDelta;
\* "" when either fails, Delta is absent or Text is empty
AnthropicText(l) ==
    IF l[2] = "delta" THEN l[3] ELSE ""

\* if data == "[DONE]" { return nil }
IsDoneNever(l) == FALSE
IsDone(l) == l[2] = "[DONE]"

\* if eventType == "message_stop" { return nil }
IsStopNever(name) == FALSE
IsStop(name) == name = "message_stop"

\* if eventType == "content_block_delta" { ... }
IsContentDeltaAlways(name) == TRUE
IsContentDelta(name) == name = "content_block_delta"

\* if line == "" { eventType = "" }
BlankResetNever(l, name) == name
BlankReset(l, name) == IF l = <<"blank">> THEN "" ELSE name

\* stream <- token on the buffered channel: the token joins the queue's tail
ChanSendFront(q, t) == <<t>> \o q
ChanSend(q, t) == Append(q, t)

\* Chat returns err: the deferred close runs, then the caller sees err
ChatReturn(err) ==
    /\ pc' = "returned"
    /\ result' = err
    /\ closed' = CloseStream(closed)

\* no sse.Reader runs
SSEIdle ==
    /\ input = <<>>
    /\ src = "none"
    /\ fed = 0
    /\ start = 0
    /\ currentEvent = <<>>
    /\ events = <<>>
    /\ delivered = <<>>
    /\ rpc = "idle"
    /\ rerr = Pending
    /\ rctx = FALSE
    /\ rmark = <<>>
    /\ eventsClosed = 0

\* no stream.Writer is in use
WriterIdle ==
    /\ isTTY = FALSE
    /\ sink = <<>>
    /\ tokens = <<>>
    /\ flushed = FALSE
    /\ werr = "nil"

\* no interactive session runs
LoopIdle ==
    /\ history = <<>>
    /\ systemPrompt = <<>>
    /\ turns = 0
    /\ turnStart = <<>>

\* no helper is being called
NoCall == [fn |-> "none"]
CallIdle ==
    /\ arg = NoCall
    /\ value = NoCall

\* the store is not used by a Chat call
StoreIdle ==
    /\ conversations = <<>>
    /\ messages = <<>>
    /\ tx = <<>>
    /\ mem = <<>>
    /\ ret = <<>>
    /\ dirty = <<>>
    /\ now = 0
    /\ begun = {}

InitChat ==
    /\ vendor \in {"openai", "anthropic"}
    /\ body \in BoundedSeq(LinesOf(vendor), MaxLines)
    /\ pos = 0
    /\ pc = "do"
    /\ resp = [status |-> 0, body |-> ""]
    /\ ctxDone = FALSE
    /\ eventType = ""
    /\ tok = ""
    /\ stream = <<>>
    /\ closed = 0
    /\ result = Pending
    /\ received = <<>>
    /\ cancelMark = [set |-> FALSE, running |-> FALSE, recv |-> 0, sent |-> 0,
                     pos |-> 0]
    /\ caller = "streaming"
    /\ StoreIdle
    /\ SSEIdle
    /\ WriterIdle
    /\ CallIdle
    /\ LoopIdle

\* client.Do returns a response with status s (error body b)
DoRespond(s, b) ==
    /\ pc = "do"
    /\ resp' = [status |-> s, body |-> IF s = StatusOK THEN "" ELSE b]
    /\ IF s # StatusOK
          THEN ChatReturn(handleHTTPError(s, b))
          ELSE pc' = "scan" /\ UNCHANGED <<result, closed>>
    /\ UNCHANGED <<vendor, body, pos, ctxDone, eventType, tok, stream,
                   received, cancelMark>>
    /\ UNCHANGED <<storeVars, sseVars, writerVars, callVars, caller, loopVars>>

\* client.Do fails (network failure, or the context was cancelled)
DoFail ==
    /\ pc = "do"
    /\ ChatReturn(CtxErrOr(ctxDone, "send-failed"))
    /\ UNCHANGED <<vendor, resp, body, pos, ctxDone, eventType, tok, stream,
                   received, cancelMark>>
    /\ UNCHANGED <<storeVars, sseVars, writerVars, callVars, caller, loopVars>>

\* scanner.Scan() returns true, then the per-line cancellation check
ScanLine ==
    /\ pc = "scan"
    /\ pos < Len(body)
    /\ pos' = pos + 1
    /\ IF LineCheck(ctxDone)
          THEN ChatReturn(Canceled)
          ELSE pc' = "line" /\ UNCHANGED <<result, closed>>
    /\ UNCHANGED <<vendor, resp, body, ctxDone, eventType, tok, stream, received,
                   cancelMark>>
    /\ UNCHANGED <<storeVars, sseVars, writerVars, callVars, caller, loopVars>>

\* scanner.Scan() returns false at the end of the body, scanner.Err() == nil
ScanEOF ==
    /\ pc = "scan"
    /\ pos = Len(body)
    /\ ChatReturn(Nil)
    /\ UNCHANGED <<vendor, resp, body, pos, ctxDone, eventType, tok, stream,
                   received, cancelMark>>
    /\ UNCHANGED <<storeVars, sseVars, writerVars, callVars, caller, loopVars>>

\* scanner.Scan() returns false with an error: the body read failed, because
\* of the network or because the context was cancelled
ScanError ==
    /\ pc = "scan"
    /\ ChatReturn(CtxErrOr(ctxDone, "read-failed"))
    /\ UNCHANGED <<vendor, resp, body, pos, ctxDone, eventType, tok, stream,
                   received, cancelMark>>
    /\ UNCHANGED <<storeVars, sseVars, writerVars, callVars, caller, loopVars>>

\* OpenAI.parseSSEStream: the body of the loop for the line just read
OpenAILine ==
    /\ vendor = "openai"
    /\ pc = "line"
    /\ LET l == body[pos] IN
         IF ~IsData(l)
            THEN pc' = "scan" /\ UNCHANGED <<tok, result, closed>>
         ELSE IF IsDone(l)
            THEN ChatReturn(Nil) /\ UNCHANGED tok
         ELSE IF OpenAIContent(l) # ""
            THEN pc' = "send" /\ tok' = OpenAIContent(l)
                 /\ UNCHANGED <<result, closed>>
         ELSE pc' = "scan" /\ UNCHANGED <<tok, result, closed>>
    /\ UNCHANGED <<vendor, resp, body, pos, ctxDone, eventType, stream, received,
                   cancelMark>>
    /\ UNCHANGED <<storeVars, sseVars, writerVars, callVars, caller, loopVars>>

\* Anthropic.parseSSEStream: the body of the loop for the line just read
AnthropicLine ==
    /\ vendor = "anthropic"
    /\ pc = "line"
    /\ LET l == body[pos] IN
         IF IsEvent(l)
            THEN /\ eventType' = l[2]
                 /\ pc' = "scan"
                 /\ UNCHANGED <<tok, result, closed>>
         ELSE IF IsData(l)
            THEN IF IsStop(eventType)
                    THEN ChatReturn(Nil) /\ UNCHANGED <<tok, eventType>>
                 ELSE IF IsContentDelta(eventType)
                         /\ AnthropicText(l) # ""
                    THEN /\ pc' = "send"
                         /\ tok' = AnthropicText(l)
                         /\ UNCHANGED <<eventType, result, closed>>
                 ELSE pc' = "scan"
                      /\ UNCHANGED <<tok, eventType, result, closed>>
         ELSE /\ eventType' = BlankReset(l, eventType)
              /\ pc' = "scan"
              /\ UNCHANGED <<tok, result, closed>>
    /\ UNCHANGED <<vendor, resp, body, pos, ctxDone, stream, received, cancelMark>>
    /\ UNCHANGED <<storeVars, sseVars, writerVars, callVars, caller, loopVars>>

\* select { case stream <- token: ... }: the send case is taken
SendToken ==
    /\ pc = "send"
    /\ Len(stream) < Capacity
    /\ stream' = ChanSend(stream, tok)
    /\ pc' = "scan"
    /\ UNCHANGED <<vendor, resp, body, pos, ctxDone, eventType, tok, closed, result,
                   received, cancelMark>>
    /\ UNCHANGED <<storeVars, sseVars, writerVars, callVars, caller, loopVars>>

\* select { ... case <-ctx.Done(): return ctx.Err() }: the Done case is taken
SendCancelled ==
    /\ pc = "send"
    /\ ctxDone
    /\ ChatReturn(Canceled)
    /\ UNCHANGED <<vendor, resp, body, pos, ctxDone, eventType, tok, stream,
                   received, cancelMark>>
    /\ UNCHANGED <<storeVars, sseVars, writerVars, callVars, caller, loopVars>>

\* the consumer: for token := range stream
Receive ==
    /\ Len(stream) > 0
    /\ received' = Append(received, Head(stream))
    /\ stream' = Tail(stream)
    /\ UNCHANGED <<vendor, resp, body, pos, pc, ctxDone, eventType, tok, closed,
                   result, cancelMark>>
    /\ UNCHANGED <<storeVars, sseVars, writerVars, callVars, caller, loopVars>>

\* the owner of the request context calls cancel()
Cancel ==
    /\ pc # "idle"
    /\ ~ctxDone
    /\ ctxDone' = TRUE
    /\ cancelMark' = [set |-> TRUE, running |-> pc # "returned",
                      recv |-> Len(received),
                      sent |-> Len(received) + Len(stream),
                      pos |-> pos]
    /\ UNCHANGED <<vendor, resp, body, pos, pc, eventType, tok, stream, closed,
                   result, received>>
    /\ UNCHANGED <<storeVars, sseVars, writerVars, callVars, caller, loopVars>>

\* runOneShot after the range over the closed, drained channel: Flush, the
\* error from errCh, return; it makes no call to the conversation store
RunReturn ==
    /\ caller = "streaming"
    /\ pc = "returned"
    /\ closed >= 1
    /\ stream = <<>>
    /\ caller' = "done"
    /\ UNCHANGED chatVars
    /\ UNCHANGED <<storeVars, sseVars, writerVars, callVars, loopVars>>

NextChat ==
    \/ \E s \in Statuses, b \in Bodies : DoRespond(s, b)
    \/ DoFail
    \/ ScanLine
    \/ ScanEOF
    \/ ScanError
    \/ OpenAILine
    \/ AnthropicLine
    \/ SendToken
    \/ SendCancelled
    \/ Receive
    \/ Cancel
    \/ RunReturn

SpecChat == InitChat /\ [][NextChat]_vars

\* runOneShot: the goroutine that runs p.Chat(ctx, req, tokens); ctx is
\* context.Background(), which is never cancelled
ChatRun ==
    \/ \E s \in Statuses, b \in Bodies : DoRespond(s, b)
    \/ DoFail
    \/ ScanLine
    \/ ScanEOF
    \/ ScanError
    \/ OpenAILine
    \/ AnthropicLine
    \/ SendToken

\* runOneShot's own goroutine: the range over tokens, then <-errCh
Consume ==
    \/ Receive
    \/ RunReturn

NextOneShot ==
    \/ ChatRun
    \/ Consume

\* both goroutines are scheduled as long as they can take a step
SpecOneShot ==
    InitChat /\ [][NextOneShot]_vars /\ WF_vars(ChatRun) /\ WF_vars(Consume)

(***************************************************************************)
(* Conversation store                                                      *)
(***************************************************************************)
MaxList == 2
MaxRows == 2
MaxTime == 1

\* the caller's Conversation values
Handles == {"c1", "c2"}

\* strings are sequences of one-character strings
MyTitle == <<"M", "y">>
Ok == <<"o", "k">>
\* 56 characters: "hi", a newline and a space, 50 times "x", two spaces
LongText ==
    [i \in 1..56 |-> IF i = 1 THEN "h" ELSE IF i = 2 THEN "i"
                     ELSE IF i = 3 THEN "\n" ELSE IF i \in {4, 55, 56} THEN " "
                     ELSE "x"]

\* a message the caller has built: no identifier yet
NewMessage(role, content) ==
    [ID |-> 0, ConversationID |-> 0, Role |-> role, Content |-> content,
     CreatedAt |-> 0]

\* the messages the caller puts in its conversation c1
NewMessages == {NewMessage("assistant", Ok), NewMessage("user", LongText)}

\* the caller's second conversation c2 is a single prompt with a title
InitialMessages(h) == IF h = "c1" THEN <<>> ELSE <<NewMessage("user", Ok)>>

\* the title the caller gives each of its conversations ("": none)
TitleOf(h) == IF h = "c1" THEN <<>> ELSE MyTitle

\* unicode.IsSpace, on the characters used here
IsSpace(c) == c \in {" ", "\t", "\n", "\r"}

\* strings.Fields: the maximal runs of non-space characters
RECURSIVE FieldsFrom(_, _, _, _)
FieldsFrom(s, i, cur, out) ==
    IF i > Len(s)
       THEN IF cur = <<>> THEN out ELSE Append(out, cur)
    ELSE IF IsSpace(s[i])
       THEN FieldsFrom(s, i + 1, <<>>, IF cur = <<>> THEN out ELSE Append(out, cur))
    ELSE FieldsFrom(s, i + 1, Append(cur, s[i]), out)

Fields(s) == FieldsFrom(s, 1, <<>>, <<>>)

\* strings.Join
RECURSIVE Join(_, _)
Join(words, sep) ==
    IF words = <<>> THEN <<>>
    ELSE IF Len(words) = 1 THEN words[1]
    ELSE words[1] \o sep \o Join(Tail(words), sep)

\* truncateTitle(s, maxLen)
truncateTitle(s, maxLen) ==
    LET t == Join(Fields(s), <<" ">>)
    IN  IF Len(t) <= maxLen THEN t
        ELSE SubSeq(t, 1, maxLen - 3) \o <<".", ".", ".">>

\* truncateTitle(msg.Content, 50)
TitleLen == 50

\* for _, msg := range conv.Messages { if msg.Role == "user" { ...; break } }
RECURSIVE FirstUserTitle(_, _)
FirstAnyTitle(msgs, i) ==
    IF i > Len(msgs) THEN <<>> ELSE truncateTitle(msgs[i].Content, TitleLen)
FirstUserTitle(msgs, i) ==
    IF i > Len(msgs) THEN <<>>
    ELSE IF msgs[i].Role = "user" THEN truncateTitle(msgs[i].Content, TitleLen)
    ELSE FirstUserTitle(msgs, i + 1)

\* title := conv.Title; if title == "" && len(conv.Messages) > 0 { ... }
NewTitle(conv) ==
    IF conv.Title = <<>> /\ Len(conv.Messages) > 0
       THEN FirstUserTitle(conv.Messages, 1)
       ELSE conv.Title

\* INTEGER PRIMARY KEY AUTOINCREMENT; rows are never deleted, and a rollback
\* restores the sequence together with the table
NextID(rows) == Len(rows) + 1

\* if msg.ID == 0 { insert }
IsNewAlways(msg) == TRUE
IsNew(msg) == msg.ID = 0

\* defer tx.Rollback(): what the tables hold after a failed save
RollbackKeeps(committed, working) == working
Rollback(committed, working) == committed

\* time.Now(): the wall clock does not go back here, but two readings can
\* be equal
Clock(t) == IF t < MaxTime THEN {t, t + 1} ELSE {t}

NoTx == [active |-> FALSE, h |-> "c1", phase |-> "none", i |-> 0,
         created |-> FALSE, convs |-> <<>>, msgs |-> <<>>]
NoResult == [id |-> 0, err |-> "none"]
\* GetConversation returned no conversation: the driver's answer and the
\* error handed to the caller
NoConversation(cause, err) ==
    [found |-> FALSE, cause |-> cause, err |-> err, ID |-> 0, Title |-> <<>>,
     Model |-> "", Provider |-> "", CreatedAt |-> 0, Messages |-> <<>>]

\* no Chat call runs while the store is exercised
ChatIdle ==
    /\ caller = "idle"
    /\ vendor = "none"
    /\ body = <<>>
    /\ pos = 0
    /\ pc = "idle"
    /\ resp = [status |-> 0, body |-> ""]
    /\ ctxDone = FALSE
    /\ eventType = ""
    /\ tok = ""
    /\ stream = <<>>
    /\ closed = 0
    /\ result = Pending
    /\ received = <<>>
    /\ cancelMark = [set |-> FALSE, running |-> FALSE, recv |-> 0, sent |-> 0,
                     pos |-> 0]

\* NewStore on an empty database; the caller holds two new Conversations
InitStore ==
    /\ conversations = <<>>
    /\ messages = <<>>
    /\ tx = NoTx
    /\ mem = [h \in Handles |-> [ID |-> 0, Title |-> TitleOf(h),
                                  Model |-> "gpt-4", Provider |-> "openai",
                                  Messages |-> InitialMessages(h)]]
    /\ ret = [h \in Handles |-> NoResult]
    /\ dirty = [h \in Handles |-> TRUE]
    /\ now = 0
    /\ begun = {}
    /\ ChatIdle
    /\ SSEIdle
    /\ WriterIdle
    /\ CallIdle
    /\ LoopIdle

\* the caller adds a message without identifier to its Conversation
AppendMessage(h, m) ==
    /\ ~tx.active
    /\ h = "c1"
    /\ Len(mem[h].Messages) < MaxList
    /\ mem' = [mem EXCEPT ![h].Messages = Append(@, m)]
    /\ dirty' = [dirty EXCEPT ![h] = TRUE]
    /\ UNCHANGED <<conversations, messages, tx, ret, now>>
    /\ UNCHANGED <<chatVars, sseVars, writerVars, callVars, caller, loopVars, begun>>

\* conv.Messages = newMessages: the caller starts a new list
ResetMessages(h) ==
    /\ ~tx.active
    /\ h = "c1"
    /\ mem[h].Messages # <<>>
    /\ mem' = [mem EXCEPT ![h].Messages = <<>>]
    /\ dirty' = [dirty EXCEPT ![h] = TRUE]
    /\ UNCHANGED <<conversations, messages, tx, ret, now>>
    /\ UNCHANGED <<chatVars, sseVars, writerVars, callVars, caller, loopVars, begun>>

\* SaveConversation: s.db.Begin() succeeds
SaveBegin(h) ==
    /\ ~tx.active
    /\ Len(messages) + Len(SelectSeq(mem[h].Messages, IsNew)) <= MaxRows
    /\ tx' = [active |-> TRUE, h |-> h,
              phase |-> IF mem[h].ID = 0 THEN "conv" ELSE "msgs", i |-> 1,
              created |-> FALSE, convs |-> conversations, msgs |-> messages]
    /\ UNCHANGED <<conversations, messages, mem, ret, dirty, now>>
    /\ UNCHANGED <<chatVars, sseVars, writerVars, callVars, caller, loopVars, begun>>

\* SaveConversation: s.db.Begin() fails
SaveBeginFail(h) ==
    /\ ~tx.active
    /\ ret[h] # [id |-> 0, err |-> "failed"]
    /\ ret' = [ret EXCEPT ![h] = [id |-> 0, err |-> "failed"]]
    /\ UNCHANGED <<conversations, messages, tx, mem, dirty, now>>
    /\ UNCHANGED <<chatVars, sseVars, writerVars, callVars, caller, loopVars, begun>>

\* SaveConversation: the INSERT INTO conversations and conv.ID = LastInsertId()
SaveInsertConversation ==
    /\ tx.active
    /\ tx.phase = "conv"
    /\ \E t \in Clock(now) :
         /\ now' = t
         /\ tx' = [tx EXCEPT
                     !.convs = Append(@, [id |-> NextID(tx.convs),
                                          title |-> NewTitle(mem[tx.h]),
                                          model |-> mem[tx.h].Model,
                                          provider |-> mem[tx.h].Provider,
                                          created_at |-> t]),
                     !.phase = "msgs", !.created = TRUE]
    /\ mem' = [mem EXCEPT ![tx.h].ID = NextID(tx.convs)]
    /\ UNCHANGED <<conversations, messages, ret, dirty>>
    /\ UNCHANGED <<chatVars, sseVars, writerVars, callVars, caller, loopVars, begun>>

\* sql.Open("sqlite3", dbPath): the data source name carries no _foreign_keys
\* parameter and no PRAGMA foreign_keys is executed, so SQLite does not
\* enforce the FOREIGN KEY clause of the messages table
ForeignKeysOn == FALSE
ForeignKeyOk(id, convs) == ForeignKeysOn => id \in 1..Len(convs)

\* SaveConversation: one iteration of the loop over conv.Messages
SaveInsertMessage ==
    /\ tx.active
    /\ tx.phase = "msgs"
    /\ tx.i <= Len(mem[tx.h].Messages)
    /\ LET msg == mem[tx.h].Messages[tx.i] IN
         IF IsNew(msg)
            THEN \E t \in Clock(now) :
                   /\ ForeignKeyOk(mem[tx.h].ID, tx.convs)
                   /\ now' = t
                   /\ tx' = [tx EXCEPT
                               !.msgs = Append(@, [id |-> NextID(tx.msgs),
                                                   conversation_id |-> mem[tx.h].ID,
                                                   role |-> msg.Role,
                                                   content |-> msg.Content,
                                                   created_at |-> t]),
                               !.i = @ + 1]
            ELSE /\ tx' = [tx EXCEPT !.i = @ + 1]
                 /\ UNCHANGED now
    /\ UNCHANGED <<conversations, messages, mem, ret, dirty>>
    /\ UNCHANGED <<chatVars, sseVars, writerVars, callVars, caller, loopVars, begun>>

\* SaveConversation: tx.Commit() succeeds, return conv.ID, nil
SaveCommit ==
    /\ tx.active
    /\ tx.phase = "msgs"
    /\ tx.i > Len(mem[tx.h].Messages)
    /\ conversations' = tx.convs
    /\ messages' = tx.msgs
    /\ tx' = NoTx
    /\ ret' = [ret EXCEPT ![tx.h] = [id |-> mem[tx.h].ID, err |-> "nil"]]
    /\ dirty' = [dirty EXCEPT ![tx.h] = FALSE]
    /\ UNCHANGED <<mem, now>>
    /\ UNCHANGED <<chatVars, sseVars, writerVars, callVars, caller, loopVars, begun>>

\* SaveConversation: the pending statement (an INSERT or the commit) fails;
\* return 0, err and the deferred tx.Rollback() runs
SaveFail ==
    /\ tx.active
    /\ conversations' = Rollback(conversations, tx.convs)
    /\ messages' = Rollback(messages, tx.msgs)
    /\ tx' = NoTx
    /\ ret' = [ret EXCEPT ![tx.h] = [id |-> 0, err |-> "failed"]]
    /\ UNCHANGED <<mem, dirty, now>>
    /\ UNCHANGED <<chatVars, sseVars, writerVars, callVars, caller, loopVars, begun>>

\* the rows of conversation id, as indices into the messages table
RowsOf(id) == {i \in 1..Len(messages) : messages[i].conversation_id = id}

\* SELECT ... WHERE conversation_id = ? ORDER BY created_at ASC: every order
\* of the rows that is sorted by created_at; SQL leaves the order of rows
\* with equal keys open
OrderByCreatedAt(R) ==
    {p \in [1..Cardinality(R) -> R] :
        /\ \A i, j \in 1..Cardinality(R) : i # j => p[i] # p[j]
        /\ \A i, j \in 1..Cardinality(R) :
              i < j => messages[p[i]].created_at <= messages[p[j]].created_at}

\* rows.Scan(&msg.ID, &msg.Role, &msg.Content, &msg.CreatedAt);
\* msg.ConversationID = id
ScanMessage(row, id) ==
    [ID |-> row.id, ConversationID |-> id, Role |-> row.role,
     Content |-> row.content, CreatedAt |-> row.created_at]

\* QueryRow(...).Scan(...): sql.ErrNoRows when no row has the id; any
\* database call can also fail in the driver
QueryRowErrs(id) ==
    (IF id \in 1..Len(conversations) THEN {"nil"} ELSE {"ErrNoRows"})
        \cup {"driver error"}

\* if err == sql.ErrNoRows { "conversation %d not found" }
\* if err != nil { "failed to get conversation: %w" }
RowErrorGeneric(e) == IF e # "nil" THEN "failed to get conversation" ELSE "nil"
RowError(e) ==
    IF e = "ErrNoRows" THEN "not found"
    ELSE IF e # "nil" THEN "failed to get conversation"
    ELSE "nil"

\* the errors of the second half: the messages query, a Scan, rows.Err()
MessageErrors == {"failed to get messages", "failed to scan message", "driver error"}

\* what GetConversation(id) can return
GetResults(id) ==
    {NoConversation(e, RowError(e)) : e \in QueryRowErrs(id) \ {"nil"}}
    \cup
    (IF "nil" \notin QueryRowErrs(id) THEN {}
     ELSE {NoConversation("driver error", m) : m \in MessageErrors}
          \cup
          {[found |-> TRUE, cause |-> "nil", err |-> RowError("nil"),
            ID |-> conversations[id].id,
            Title |-> conversations[id].title,
            Model |-> conversations[id].model,
            Provider |-> conversations[id].provider,
            CreatedAt |-> conversations[id].created_at,
            Messages |-> [k \in 1..Cardinality(RowsOf(id)) |->
                            ScanMessage(messages[p[k]], id)]] :
           p \in OrderByCreatedAt(RowsOf(id))})

\* ---- ListConversations ----

\* the limit values tried; a negative LIMIT is no limit in SQLite
Limits == {-1, 0, 1, 2, 3}

\* the search strings tried: another case, a LIKE wildcard, text that is in
\* a title and in a message of the same conversation, text nowhere
Searches == {<<"O", "K">>, <<"_", "y">>, <<"x", "x">>, <<"q">>}

\* LIKE compares ASCII letters without regard to case
Lower(c) ==
    CASE c = "K" -> "k" [] c = "M" -> "m" [] c = "O" -> "o"
      [] c = "Q" -> "q" [] c = "X" -> "x" [] c = "Y" -> "y"
      [] OTHER -> c

\* SQLite's LIKE without ESCAPE: % is any run of characters, _ any one
RECURSIVE Like(_, _, _, _)
Like(pat, i, t, j) ==
    IF i > Len(pat) THEN j > Len(t)
    ELSE IF pat[i] = "%"
       THEN Like(pat, i + 1, t, j) \/ (j <= Len(t) /\ Like(pat, i, t, j + 1))
    ELSE /\ j <= Len(t)
         /\ pat[i] = "_" \/ Lower(pat[i]) = Lower(t[j])
         /\ Like(pat, i + 1, t, j + 1)

\* the bound parameter "%"+search+"%"
LikePattern(search) == <<"%">> \o search \o <<"%">>

\* the texts the tables can hold, and which of them each pattern matches
StoredTexts == {<<>>, MyTitle, Ok, LongText, truncateTitle(LongText, TitleLen)}
LikeTable == [q \in Searches |->
                 {t \in StoredTexts : Like(LikePattern(q), 1, t, 1)}]

\* column LIKE ?
LikeMatch(search, t) ==
    IF search \in Searches /\ t \in StoredTexts
       THEN t \in LikeTable[search]
       ELSE Like(LikePattern(search), 1, t, 1)

\* WHERE c.title LIKE ? OR m.content LIKE ? over the LEFT JOIN, DISTINCT:
\* the conversations with a matching title or a matching message, each once
Selected(search) ==
    IF search = <<>> THEN 1..Len(conversations)
    ELSE {id \in 1..Len(conversations) :
             \/ LikeMatch(search, conversations[id].title)
             \/ \E r \in RowsOf(id) : LikeMatch(search, messages[r].content)}

\* ORDER BY created_at DESC
OrderedAny(a, b) == TRUE
Ordered(a, b) == a >= b

\* every order of the selected rows that ORDER BY allows
OrderByCreatedAtDesc(R) ==
    {p \in [1..Cardinality(R) -> R] :
        /\ \A i, j \in 1..Cardinality(R) : i # j => p[i] # p[j]
        /\ \A i, j \in 1..Cardinality(R) :
              i < j => Ordered(conversations[p[i]].created_at,
                               conversations[p[j]].created_at)}

\* LIMIT ?
Limit(p, limit) ==
    IF limit >= 0 /\ limit < Len(p) THEN SubSeq(p, 1, limit) ELSE p

\* rows.Scan(&conv.ID, &conv.Title, &conv.Model, &conv.Provider, &conv.CreatedAt)
ScanConversation(row) ==
    [ID |-> row.id, Title |-> row.title, Model |-> row.model,
     Provider |-> row.provider, CreatedAt |-> row.created_at]

\* what ListConversations(limit, search) can return when the query works
ListResults(limit, search) ==
    {[k \in 1..Len(Limit(p, limit)) |-> ScanConversation(conversations[p[k]])] :
        p \in OrderByCreatedAtDesc(Selected(search))}

\* retrieved, err := store.GetConversation(conv.ID) by the caller, which on
\* success goes on with the fetched messages: conv.Messages = retrieved.Messages.
\* Only c1 is continued; c2 is a one-shot prompt.
GetConversation(h) ==
    /\ ~tx.active
    /\ h = "c1"
    /\ \E r \in GetResults(mem[h].ID) :
         /\ r.found
         /\ Len(r.Messages) <= MaxList
         /\ r.Messages # mem[h].Messages
         /\ mem' = [mem EXCEPT ![h].Messages = r.Messages]
    /\ dirty' = [dirty EXCEPT ![h] = TRUE]
    /\ UNCHANGED <<conversations, messages, tx, ret, now>>
    /\ UNCHANGED <<chatVars, sseVars, writerVars, callVars, caller, loopVars, begun>>

NextStore ==
    \/ \E h \in Handles, m \in NewMessages : AppendMessage(h, m)
    \/ \E h \in Handles : ResetMessages(h)
    \/ \E h \in Handles : SaveBegin(h)
    \/ \E h \in Handles : SaveBeginFail(h)
    \/ SaveInsertConversation
    \/ SaveInsertMessage
    \/ SaveCommit
    \/ SaveFail
    \/ \E h \in Handles : GetConversation(h)

SpecStore == InitStore /\ [][NextStore]_vars

(***************************************************************************)
(* Concurrent SaveConversation calls on one conversation.  Each call runs  *)
(* in its own transaction on its own connection; the database has one      *)
(* write lock, taken by a transaction's first INSERT and held until its    *)
(* commit or rollback, and other connections read the committed tables.    *)
(***************************************************************************)

\* two processes have fetched conversation 1, which was saved without
\* messages, and each has put messages without identifier in its value
InitConcurrent ==
    /\ conversations = <<[id |-> 1, title |-> MyTitle, model |-> "gpt-4",
                          provider |-> "openai", created_at |-> 0]>>
    /\ messages = <<>>
    /\ tx = NoTx
    /\ mem \in [Handles ->
                  {[ID |-> 1, Title |-> MyTitle, Model |-> "gpt-4",
                    Provider |-> "openai", Messages |-> ms] :
                      ms \in BoundedSeq(NewMessages, MaxList) \ {<<>>}}]
    /\ ret = [h \in Handles |-> NoResult]
    /\ dirty = [h \in Handles |-> TRUE]
    /\ now = 0
    /\ begun = {}
    /\ ChatIdle
    /\ SSEIdle
    /\ WriterIdle
    /\ CallIdle
    /\ LoopIdle

\* SaveConversation: s.db.Begin() succeeds; conv.ID is set, so the call goes
\* to the loop over conv.Messages
CallBegin(h) ==
    /\ h \notin begun
    /\ ~(tx.active /\ tx.h = h)
    /\ Len(messages) + Len(SelectSeq(mem[h].Messages, IsNew)) <= MaxRows
    /\ begun' = begun \cup {h}
    /\ ret' = [ret EXCEPT ![h] = NoResult]
    /\ UNCHANGED <<conversations, messages, tx, mem, dirty, now>>
    /\ UNCHANGED <<chatVars, sseVars, writerVars, callVars, caller, loopVars>>

\* SaveConversation: the call's first tx.Exec finds the write lock free and
\* takes it; the transaction works on the tables as committed now
CallWrite(h) ==
    /\ h \in begun
    /\ ~tx.active
    /\ Len(messages) + Len(SelectSeq(mem[h].Messages, IsNew)) <= MaxRows
    /\ tx' = [active |-> TRUE, h |-> h, phase |-> "msgs", i |-> 1,
              created |-> FALSE, convs |-> conversations, msgs |-> messages]
    /\ begun' = begun \ {h}
    /\ UNCHANGED <<conversations, messages, mem, ret, dirty, now>>
    /\ UNCHANGED <<chatVars, sseVars, writerVars, callVars, caller, loopVars>>

\* SaveConversation: the call's first tx.Exec finds the write lock held by
\* another transaction until the busy timeout: return 0, err
CallBusy(h) ==
    /\ h \in begun
    /\ tx.active
    /\ begun' = begun \ {h}
    /\ ret' = [ret EXCEPT ![h] = [id |-> 0, err |-> "failed"]]
    /\ UNCHANGED <<conversations, messages, tx, mem, dirty, now>>
    /\ UNCHANGED <<chatVars, sseVars, writerVars, callVars, caller, loopVars>>

NextConcurrent ==
    \/ \E h \in Handles : CallBegin(h)
    \/ \E h \in Handles : CallWrite(h)
    \/ \E h \in Handles : CallBusy(h)
    \/ SaveInsertMessage
    \/ SaveCommit
    \/ SaveFail

SpecConcurrent == InitConcurrent /\ [][NextConcurrent]_vars

(***************************************************************************)
(* sse.Reader                                                              *)
(***************************************************************************)
MaxSSELines == 3
EventsCap == 1

\* strings.HasPrefix, strings.TrimPrefix
HasPrefix(s, p) == Len(s) >= Len(p) /\ SubSeq(s, 1, Len(p)) = p
TrimPrefix(s, p) == IF HasPrefix(s, p) THEN SubSeq(s, Len(p) + 1, Len(s)) ELSE s

\* strings.TrimSpace
RECURSIVE TrimLeftSpace(_)
TrimLeftSpace(s) ==
    IF s # <<>> /\ IsSpace(s[1]) THEN TrimLeftSpace(Tail(s)) ELSE s
RECURSIVE TrimRightSpace(_)
TrimRightSpace(s) ==
    IF s # <<>> /\ IsSpace(s[Len(s)])
       THEN TrimRightSpace(SubSeq(s, 1, Len(s) - 1)) ELSE s
TrimSpace(s) == TrimRightSpace(TrimLeftSpace(s))

\* the field prefixes Read tests for
CommentPrefix == <<":">>
EventPrefix == <<"e", "v", "e", "n", "t", ":">>
DataPrefix == <<"d", "a", "t", "a", ":">>

\* the lines of the inputs, without their line end:
\*   ""   "\r"   ":k"   "event: t "   "data: x"   "data:  y"   "data:z"
SSELineTexts ==
    {<<>>, <<"\r">>, CommentPrefix \o <<"k">>,
     EventPrefix \o <<" ", "t", " ">>,
     DataPrefix \o <<" ", "x">>, DataPrefix \o <<" ", " ", "y">>,
     DataPrefix \o <<"z">>}

\* the bytes of the lines ls, each ended by "\n"; the last one only if term
RECURSIVE JoinLines(_, _)
JoinLines(ls, term) ==
    IF ls = <<>> THEN <<>>
    ELSE IF Len(ls) = 1 THEN ls[1] \o (IF term THEN <<"\n">> ELSE <<>>)
    ELSE ls[1] \o <<"\n">> \o JoinLines(Tail(ls), term)

SSEInputs ==
    {JoinLines(ls, term) : ls \in BoundedSeq(SSELineTexts, MaxSSELines),
                           term \in BOOLEAN}

\* Event{}
NoEvent == [Type |-> <<>>, Data |-> <<>>]

\* bufio.ScanLines: the split function of the scanner
IndexNewline(data) ==
    IF \E i \in 1..Len(data) : data[i] = "\n"
       THEN CHOOSE i \in 1..Len(data) :
                data[i] = "\n" /\ \A j \in 1..(i - 1) : data[j] # "\n"
       ELSE 0
dropCR(data) ==
    IF data # <<>> /\ data[Len(data)] = "\r"
       THEN SubSeq(data, 1, Len(data) - 1) ELSE data
NoToken == [advance |-> 0, token |-> <<>>, found |-> FALSE]
ScanLinesEager(data, atEOF) ==
    IF data = <<>> THEN NoToken
    ELSE IF IndexNewline(data) > 0
       THEN [advance |-> IndexNewline(data),
             token |-> dropCR(SubSeq(data, 1, IndexNewline(data) - 1)),
             found |-> TRUE]
    ELSE [advance |-> Len(data), token |-> dropCR(data), found |-> TRUE]
ScanLines(data, atEOF) ==
    IF atEOF /\ data = <<>> THEN NoToken
    ELSE IF IndexNewline(data) > 0
       THEN [advance |-> IndexNewline(data),
             token |-> dropCR(SubSeq(data, 1, IndexNewline(data) - 1)),
             found |-> TRUE]
    ELSE IF atEOF
       THEN [advance |-> Len(data), token |-> dropCR(data), found |-> TRUE]
    ELSE NoToken

\* bufio.Scanner.Scan: the split function applied to the buffered bytes; once
\* the underlying reader has returned an error (io.EOF included) the buffer
\* is split as at the end of the input
Buffered == SubSeq(input, start + 1, fed)
NextToken == ScanLines(Buffered, src # "open")

\* data = strings.TrimPrefix(data, " ")
TrimAllSpaces(s) == TrimLeftSpace(s)
TrimOneSpace(s) == TrimPrefix(s, <<" ">>)

\* the comment, event: and data: cases of Read's loop body
ProcessField(ev, line) ==
    IF HasPrefix(line, CommentPrefix) THEN ev
    ELSE IF HasPrefix(line, EventPrefix)
       THEN [ev EXCEPT !.Type = TrimSpace(TrimPrefix(line, EventPrefix))]
    ELSE IF HasPrefix(line, DataPrefix)
       THEN LET data == TrimOneSpace(TrimPrefix(line, DataPrefix))
            IN  [ev EXCEPT !.Data =
                    (IF @ # <<>> THEN @ \o <<"\n">> ELSE @) \o data]
    ELSE ev

\* if currentEvent.Data != "" (at a blank line)
HasData(ev) == ev.Data # <<>>

\* if currentEvent.Data != "" (after the loop)
NeedsFlushNever(ev) == FALSE
NeedsFlush(ev) == ev.Data # <<>>

\* currentEvent = Event{}
ResetKeepsType(ev) == [ev EXCEPT !.Data = <<>>]
ResetEvent(ev) == NoEvent

\* the non-blocking select on r.ctx.Done() at the top of the loop body
ReadCheckSkipped(done) == FALSE
ReadCheck(done) == done

\* if r.ctx.Err() != nil { return r.ctx.Err() }; return fmt.Errorf(...)
ReaderErrWrapAlways(done) == Transport("read-sse")
ReaderErr(done) == CtxErrOr(done, "read-sse")

\* Read has no close(events): the channel is left as it is on return
ClosedOnReturn(n) == n + 1
LeftOpen(n) == n

\* Read returns err
ReadReturn(err) ==
    /\ rpc' = "returned"
    /\ rerr' = err
    /\ eventsClosed' = LeftOpen(eventsClosed)

\* NewReader(ctx, r) and the call of Read
InitSSE ==
    /\ input \in SSEInputs
    /\ src = "open"
    /\ fed = 0
    /\ start = 0
    /\ currentEvent = NoEvent
    /\ events = <<>>
    /\ delivered = <<>>
    /\ rpc = "scan"
    /\ rerr = Pending
    /\ rctx = FALSE
    /\ rmark = [set |-> FALSE, running |-> FALSE, sent |-> 0, start |-> 0]
    /\ eventsClosed = 0
    /\ ChatIdle
    /\ StoreIdle
    /\ WriterIdle
    /\ CallIdle
    /\ LoopIdle

\* the scanner needs more bytes and the underlying Read returns n of them
FillSome(n) ==
    /\ rpc = "scan"
    /\ src = "open"
    /\ ~NextToken.found
    /\ fed + n <= Len(input)
    /\ fed' = fed + n
    /\ UNCHANGED <<input, src, start, currentEvent, events, delivered, rpc,
                   rerr, rctx, rmark>>
    /\ UNCHANGED <<chatVars, storeVars, writerVars, callVars, caller, loopVars, eventsClosed>>

\* the scanner needs more bytes and the underlying Read returns io.EOF
FillEOF ==
    /\ rpc = "scan"
    /\ src = "open"
    /\ ~NextToken.found
    /\ fed = Len(input)
    /\ src' = "eof"
    /\ UNCHANGED <<input, fed, start, currentEvent, events, delivered, rpc,
                   rerr, rctx, rmark>>
    /\ UNCHANGED <<chatVars, storeVars, writerVars, callVars, caller, loopVars, eventsClosed>>

\* the scanner needs more bytes and the underlying Read fails
FillFail ==
    /\ rpc = "scan"
    /\ src = "open"
    /\ ~NextToken.found
    /\ src' = "failed"
    /\ UNCHANGED <<input, fed, start, currentEvent, events, delivered, rpc,
                   rerr, rctx, rmark>>
    /\ UNCHANGED <<chatVars, storeVars, writerVars, callVars, caller, loopVars, eventsClosed>>

\* r.scanner.Scan() returns true: the cancellation check, then the loop body
\* for the line, up to a channel send
ReadLine ==
    /\ rpc = "scan"
    /\ NextToken.found
    /\ start' = start + NextToken.advance
    /\ IF ReadCheck(rctx)
          THEN ReadReturn(Canceled) /\ UNCHANGED currentEvent
       ELSE IF NextToken.token = <<>>
          THEN IF HasData(currentEvent)
                  THEN rpc' = "send" /\ UNCHANGED <<currentEvent, rerr, eventsClosed>>
                  ELSE /\ currentEvent' = ResetEvent(currentEvent)
                       /\ UNCHANGED <<rpc, rerr, eventsClosed>>
       ELSE /\ currentEvent' = ProcessField(currentEvent, NextToken.token)
            /\ UNCHANGED <<rpc, rerr, eventsClosed>>
    /\ UNCHANGED <<input, src, fed, events, delivered, rctx, rmark>>
    /\ UNCHANGED <<chatVars, storeVars, writerVars, callVars, caller, loopVars>>

\* select { case events <- currentEvent: } at a blank line, then the reset
SendEvent ==
    /\ rpc = "send"
    /\ Len(events) < EventsCap
    /\ events' = Append(events, currentEvent)
    /\ currentEvent' = ResetEvent(currentEvent)
    /\ rpc' = "scan"
    /\ UNCHANGED <<input, src, fed, start, delivered, rerr, rctx, rmark>>
    /\ UNCHANGED <<chatVars, storeVars, writerVars, callVars, caller, loopVars, eventsClosed>>

\* r.scanner.Scan() returns false: the scanner error, then the last event
ReadEnd ==
    /\ rpc = "scan"
    /\ src # "open"
    /\ ~NextToken.found
    /\ IF src = "failed"
          THEN ReadReturn(ReaderErr(rctx))
       ELSE IF NeedsFlush(currentEvent)
          THEN rpc' = "flush" /\ UNCHANGED <<rerr, eventsClosed>>
       ELSE ReadReturn(Nil)
    /\ UNCHANGED <<input, src, fed, start, currentEvent, events, delivered,
                   rctx, rmark>>
    /\ UNCHANGED <<chatVars, storeVars, writerVars, callVars, caller, loopVars>>

\* select { case events <- currentEvent: } after the loop, then return nil
FlushEvent ==
    /\ rpc = "flush"
    /\ Len(events) < EventsCap
    /\ events' = Append(events, currentEvent)
    /\ ReadReturn(Nil)
    /\ UNCHANGED <<input, src, fed, start, currentEvent, delivered, rctx, rmark>>
    /\ UNCHANGED <<chatVars, storeVars, writerVars, callVars, caller, loopVars>>

\* select { ... case <-r.ctx.Done(): return r.ctx.Err() } at either send
SendEventCancelled ==
    /\ rpc \in {"send", "flush"}
    /\ rctx
    /\ ReadReturn(Canceled)
    /\ UNCHANGED <<input, src, fed, start, currentEvent, events, delivered,
                   rctx, rmark>>
    /\ UNCHANGED <<chatVars, storeVars, writerVars, callVars, caller, loopVars>>

\* the consumer takes an event from the channel
TakeEvent ==
    /\ events # <<>>
    /\ delivered' = Append(delivered, Head(events))
    /\ events' = Tail(events)
    /\ UNCHANGED <<input, src, fed, start, currentEvent, rpc, rerr, rctx, rmark>>
    /\ UNCHANGED <<chatVars, storeVars, writerVars, callVars, caller, loopVars, eventsClosed>>

\* the owner of the reader's context calls cancel()
CancelReader ==
    /\ rpc # "idle"
    /\ ~rctx
    /\ rctx' = TRUE
    /\ rmark' = [set |-> TRUE, running |-> rpc # "returned",
                 sent |-> Len(delivered) + Len(events), start |-> start]
    /\ UNCHANGED <<input, src, fed, start, currentEvent, events, delivered,
                   rpc, rerr>>
    /\ UNCHANGED <<chatVars, storeVars, writerVars, callVars, caller, loopVars, eventsClosed>>

NextSSE ==
    \/ \E n \in 1..Len(input) : FillSome(n)
    \/ FillEOF
    \/ FillFail
    \/ ReadLine
    \/ SendEvent
    \/ ReadEnd
    \/ FlushEvent
    \/ SendEventCancelled
    \/ TakeEvent
    \/ CancelReader

SpecSSE == InitSSE /\ [][NextSSE]_vars

\* the three stream decoders side by side: a run is a Chat call of one of the
\* adapters or a Read of the sse.Reader
InitDecoders == InitChat \/ InitSSE
NextDecoders == NextChat \/ NextSSE
SpecDecoders == InitDecoders /\ [][NextDecoders]_vars

(***************************************************************************)
(* stream.Writer                                                           *)
(***************************************************************************)

\* number of Write calls on one Writer
MaxWrites == 3

\* tokens as byte sequences: empty, plain, with a newline inside, two bytes
WriterTokens == {<<>>, <<"a">>, <<"b", "\n">>, <<"c", "d">>}

RECURSIVE Concat(_)
Concat(ts) == IF ts = <<>> THEN <<>> ELSE Head(ts) \o Concat(Tail(ts))

\* what Flush writes: a newline for a pipe, nothing for a terminal
FlushTailAlways(tty) == <<"\n">>
FlushTail(tty) == IF ~tty THEN <<"\n">> ELSE <<>>

\* NewWriter(out, isTTY) on an empty sink
InitWriter ==
    /\ isTTY \in BOOLEAN
    /\ sink = <<>>
    /\ tokens = <<>>
    /\ flushed = FALSE
    /\ werr = "nil"
    /\ ChatIdle
    /\ StoreIdle
    /\ SSEIdle
    /\ CallIdle
    /\ LoopIdle

\* Write(token): io.WriteString hands the token to out and returns nil
Write(t) ==
    /\ ~flushed
    /\ werr = "nil"
    /\ Len(tokens) < MaxWrites
    /\ sink' = sink \o t
    /\ tokens' = Append(tokens, t)
    /\ UNCHANGED <<isTTY, flushed, werr>>
    /\ UNCHANGED <<chatVars, storeVars, sseVars, callVars, caller, loopVars>>

\* Write(token) on an out that takes only the first n bytes and fails
WriteFail(t, n) ==
    /\ ~flushed
    /\ Len(tokens) < MaxWrites
    /\ n < Len(t)
    /\ sink' = sink \o SubSeq(t, 1, n)
    /\ tokens' = Append(tokens, t)
    /\ werr' = "failed"
    /\ UNCHANGED <<isTTY, flushed>>
    /\ UNCHANGED <<chatVars, storeVars, sseVars, callVars, caller, loopVars>>

\* Flush(): the trailing newline of the pipe mode reaches out
Flush ==
    /\ ~flushed
    /\ werr = "nil"
    /\ sink' = sink \o FlushTail(isTTY)
    /\ flushed' = TRUE
    /\ UNCHANGED <<isTTY, tokens, werr>>
    /\ UNCHANGED <<chatVars, storeVars, sseVars, callVars, caller, loopVars>>

\* Flush() whose write is refused: the failure is only warned about
FlushFail ==
    /\ ~flushed
    /\ ~isTTY
    /\ flushed' = TRUE
    /\ werr' = "failed"
    /\ UNCHANGED <<isTTY, sink, tokens>>
    /\ UNCHANGED <<chatVars, storeVars, sseVars, callVars, caller, loopVars>>

NextWriter ==
    \/ \E t \in WriterTokens : Write(t)
    \/ \E t \in WriterTokens : \E n \in 0..1 : WriteFail(t, n)
    \/ Flush
    \/ FlushFail

SpecWriter == InitWriter /\ [][NextWriter]_vars

(***************************************************************************)
(* Pure helpers: truncateTitle and the Anthropic request preprocessing.    *)
(* A Go string is its bytes: a character outside ASCII is more than one    *)
(* element, a lead byte followed by continuation bytes.                    *)
(***************************************************************************)

\* number of characters of a text handed to truncateTitle
MaxChars == 4
\* number of messages of a ChatRequest
MaxMsgs == 3

\* the two bytes of U+00E9
LeadByte == "C3"
ContByte == "A9"

\* the characters texts are made of, each as its UTF-8 bytes
Chars == {<<"a">>, <<" ">>, <<"\n">>, <<LeadByte, ContByte>>}

\* the valid UTF-8 texts of at most n characters
Texts(n) == {Concat(cs) : cs \in BoundedSeq(Chars, n)}

\* the maxLen values tried (the claim asks for maxLen >= 3)
MaxLens == {3, 4}

TruncateArgs == {[fn |-> "truncateTitle", s |-> t, maxLen |-> m] :
                    t \in Texts(MaxChars), m \in MaxLens}

\* the request messages: three roles, contents that may be empty
RequestContents == {<<>>, <<"A">>, <<"B">>}
RequestMessages == {[Role |-> r, Content |-> c] :
                       r \in {"system", "user", "assistant"}, c \in RequestContents}
RequestArgs == {[fn |-> "Anthropic.Chat", msgs |-> ms] :
                   ms \in BoundedSeq(RequestMessages, MaxMsgs)}

\* if systemPrompt != "" { systemPrompt += "\n\n" }
SystemSepNone(sysText) == <<>>
SystemSep(sysText) == IF sysText # <<>> THEN <<"\n", "\n">> ELSE <<>>

\* for _, msg := range req.Messages { ... } of Anthropic.Chat
RECURSIVE SplitSystem(_, _, _, _)
SplitSystem(msgs, i, sysText, apiMessages) ==
    IF i > Len(msgs) THEN [System |-> sysText, Messages |-> apiMessages]
    ELSE IF msgs[i].Role = "system"
       THEN SplitSystem(msgs, i + 1,
                        sysText \o SystemSep(sysText) \o msgs[i].Content,
                        apiMessages)
    ELSE SplitSystem(msgs, i + 1, sysText,
                     Append(apiMessages, [Role |-> msgs[i].Role, Content |-> msgs[i].Content]))

\* the System and Messages fields of the anthropicRequest built by Chat
AnthropicRequest(msgs) == SplitSystem(msgs, 1, <<>>, <<>>)

\* a helper is about to be called with one of the arguments
InitCalls ==
    /\ arg \in TruncateArgs \cup RequestArgs
    /\ value = NoCall
    /\ ChatIdle
    /\ StoreIdle
    /\ SSEIdle
    /\ WriterIdle
    /\ LoopIdle

\* truncateTitle(s, maxLen) returns
CallTruncate ==
    /\ arg.fn = "truncateTitle"
    /\ value = NoCall
    /\ value' = [fn |-> "truncateTitle", s |-> truncateTitle(arg.s, arg.maxLen)]
    /\ UNCHANGED arg
    /\ UNCHANGED <<chatVars, storeVars, sseVars, writerVars, caller, loopVars>>

\* Anthropic.Chat has built its request
CallBuildRequest ==
    /\ arg.fn = "Anthropic.Chat"
    /\ value = NoCall
    /\ value' = [fn |-> "Anthropic.Chat", req |-> AnthropicRequest(arg.msgs)]
    /\ UNCHANGED arg
    /\ UNCHANGED <<chatVars, storeVars, sseVars, writerVars, caller, loopVars>>

NextCalls ==
    \/ CallTruncate
    \/ CallBuildRequest

SpecCalls == InitCalls /\ [][NextCalls]_vars

(***************************************************************************)
(* runInteractive: the prompt loop around one Chat call per turn.  Texts   *)
(* are sequences of characters; every token is one character, so the       *)
(* tokens received are the text of the response.                           *)
(***************************************************************************)

\* number of turns of a session
MaxTurns == 2

\* resolveSystemPrompt(systemFlag): none, or a text
SystemPrompts == {<<>>, <<"S">>}

\* the line typed at the prompt, after TrimSpace, when it is not a command
UserInput == <<"h", "i">>

\* the vendor's answer to a turn: token lines and the end of the stream
TurnLines(v) ==
    IF v = "openai"
       THEN {<<"data", "chunk", "A">>, <<"data", "[DONE]">>}
       ELSE {<<"event", "content_block_delta">>, <<"data", "delta", "A">>}
TurnBodies(v) == BoundedSeq(TurnLines(v), MaxLines)

\* messages = messages[:0]; if systemPrompt != "" { messages = append(...) }
FreshHistory(sp) ==
    IF sp # <<>> THEN <<[Role |-> "system", Content |-> sp]>> ELSE <<>>

\* messages = messages[:len(messages)-1]
DropNone(h) == h
DropLast(h) == SubSeq(h, 1, Len(h) - 1)

\* the token channel, the error channel and the goroutine of a turn are gone
TurnOver ==
    /\ body' = <<>>
    /\ pos' = 0
    /\ pc' = "idle"
    /\ resp' = [status |-> 0, body |-> ""]
    /\ eventType' = ""
    /\ tok' = ""
    /\ stream' = <<>>
    /\ closed' = 0
    /\ result' = Pending
    /\ received' = <<>>

\* runInteractive before its loop, with the provider of the configuration
InitInteractive ==
    /\ vendor \in {"openai", "anthropic"}
    /\ body = <<>>
    /\ pos = 0
    /\ pc = "idle"
    /\ resp = [status |-> 0, body |-> ""]
    /\ ctxDone = FALSE
    /\ eventType = ""
    /\ tok = ""
    /\ stream = <<>>
    /\ closed = 0
    /\ result = Pending
    /\ received = <<>>
    /\ cancelMark = [set |-> FALSE, running |-> FALSE, recv |-> 0, sent |-> 0,
                     pos |-> 0]
    /\ caller = "prompt"
    /\ systemPrompt \in SystemPrompts
    /\ history = FreshHistory(systemPrompt)
    /\ turns = 0
    /\ turnStart = FreshHistory(systemPrompt)
    /\ StoreIdle
    /\ SSEIdle
    /\ WriterIdle
    /\ CallIdle

\* a line that is not a command: the user message is appended and Chat is
\* started in a goroutine with fresh channels
UserMessage ==
    /\ caller = "prompt"
    /\ turns < MaxTurns
    /\ turns' = turns + 1
    /\ turnStart' = history
    /\ history' = Append(history, [Role |-> "user", Content |-> UserInput])
    /\ body' \in TurnBodies(vendor)
    /\ pos' = 0
    /\ pc' = "do"
    /\ resp' = [status |-> 0, body |-> ""]
    /\ eventType' = ""
    /\ tok' = ""
    /\ stream' = <<>>
    /\ closed' = 0
    /\ result' = Pending
    /\ received' = <<>>
    /\ caller' = "streaming"
    /\ UNCHANGED <<vendor, ctxDone, cancelMark, systemPrompt>>
    /\ UNCHANGED <<storeVars, sseVars, writerVars, callVars>>

\* /new or /clear
NewConversation ==
    /\ caller = "prompt"
    /\ history' = FreshHistory(systemPrompt)
    /\ UNCHANGED <<chatVars, caller, systemPrompt, turns, turnStart>>
    /\ UNCHANGED <<storeVars, sseVars, writerVars, callVars>>

\* /quit, /exit, /q, or the end of the input
Quit ==
    /\ caller = "prompt"
    /\ caller' = "quit"
    /\ UNCHANGED <<chatVars, loopVars>>
    /\ UNCHANGED <<storeVars, sseVars, writerVars, callVars>>

\* for token := range tokens: the token joins the response and is written
ReceiveTurn ==
    /\ caller = "streaming"
    /\ Len(stream) > 0
    /\ received' = Append(received, Head(stream))
    /\ stream' = Tail(stream)
    /\ UNCHANGED <<vendor, body, pos, pc, resp, ctxDone, eventType, tok, closed,
                   result, cancelMark>>
    /\ UNCHANGED <<caller, loopVars>>
    /\ UNCHANGED <<storeVars, sseVars, writerVars, callVars>>

\* the same, but writer.Write fails: break
ReceiveBreak ==
    /\ caller = "streaming"
    /\ Len(stream) > 0
    /\ received' = Append(received, Head(stream))
    /\ stream' = Tail(stream)
    /\ caller' = "waiting"
    /\ UNCHANGED <<vendor, body, pos, pc, resp, ctxDone, eventType, tok, closed,
                   result, cancelMark>>
    /\ UNCHANGED loopVars
    /\ UNCHANGED <<storeVars, sseVars, writerVars, callVars>>

\* the range ends: the channel is closed and empty
RangeEnds ==
    /\ caller = "streaming"
    /\ closed >= 1
    /\ stream = <<>>
    /\ caller' = "waiting"
    /\ UNCHANGED <<chatVars, loopVars>>
    /\ UNCHANGED <<storeVars, sseVars, writerVars, callVars>>

\* err := <-errCh: on an error the user message is removed, otherwise the
\* assistant message is appended; back to the prompt
TurnResult ==
    /\ caller = "waiting"
    /\ pc = "returned"
    /\ history' = IF result # Nil
                     THEN DropLast(history)
                     ELSE Append(history, [Role |-> "assistant",
                                           Content |-> received])
    /\ caller' = "prompt"
    /\ TurnOver
    /\ UNCHANGED <<vendor, ctxDone, cancelMark, systemPrompt, turns, turnStart>>
    /\ UNCHANGED <<storeVars, sseVars, writerVars, callVars>>

\* Ctrl+C while a response is streamed: no signal.Notify anywhere and ctx is
\* context.Background(), so SIGINT has its default effect and the process ends
Interrupt ==
    /\ caller \in {"streaming", "waiting"}
    /\ caller' = "killed"
    /\ TurnOver
    /\ UNCHANGED <<vendor, ctxDone, cancelMark, loopVars>>
    /\ UNCHANGED <<storeVars, sseVars, writerVars, callVars>>

NextInteractive ==
    \/ ChatRun
    \/ UserMessage
    \/ NewConversation
    \/ Quit
    \/ ReceiveTurn
    \/ ReceiveBreak
    \/ RangeEnds
    \/ TurnResult
    \/ Interrupt

SpecInteractive == InitInteractive /\ [][NextInteractive]_vars

(***************************************************************************)
(* Properties of the interactive session (checked under SpecInteractive)   *)
(***************************************************************************)

\* C35: every turn completes, also when a write fails and the loop stops
\* receiving: the loop never waits for Chat's result while the Chat goroutine
\* is blocked on a send to the full token channel.
C35_NeverBlockedOnSend ==
    ~(caller = "waiting" /\ pc = "send" /\ Len(stream) >= Capacity)

\* C32: Ctrl+C during a streaming response cancels that response only; the
\* session goes back to the prompt and never ends by it.
C32_SessionSurvivesInterrupt == caller # "killed"

RECURSIVE Alternating(_, _)
Alternating(h, i) ==
    IF i > Len(h)
       THEN TRUE
       ELSE /\ i + 1 <= Len(h)
            /\ h[i].Role = "user"
            /\ h[i + 1].Role = "assistant"
            /\ Alternating(h, i + 2)

WellFormed(h) ==
    LET n == Len(FreshHistory(systemPrompt))
    IN  /\ Len(h) >= n
        /\ SubSeq(h, 1, n) = FreshHistory(systemPrompt)
        /\ Alternating(h, n + 1)

UserTurn == [Role |-> "user", Content |-> UserInput]

\* C36: at the prompt the history is the optional system prompt followed by
\* user/assistant pairs; during a turn it is the history before the turn plus
\* the user message; a successful turn ends with the history before the turn,
\* the user message and one assistant message whose content is the tokens
\* received, a failed turn with the history before the turn; /new and /clear
\* leave the system prompt alone.
C36_History ==
    /\ [](caller \in {"prompt", "quit"} => WellFormed(history))
    /\ [](caller \in {"streaming", "waiting"} =>
              /\ WellFormed(turnStart)
              /\ history = Append(turnStart, UserTurn))
    /\ [][(caller = "waiting" /\ caller' = "prompt") =>
              IF result = Nil
                 THEN history' = turnStart \o
                          <<UserTurn, [Role |-> "assistant", Content |-> received]>>
                 ELSE history' = turnStart]_vars
    /\ [][(caller = "prompt" /\ caller' = "prompt") =>
              history' = FreshHistory(systemPrompt)]_vars

\* two turns under a system prompt, one of them failed, the other answered "AA"
C36_Witness ==
    /\ caller = "prompt"
    /\ turns = 2
    /\ systemPrompt # <<>>
    /\ Len(history) = 3
    /\ history[3] = [Role |-> "assistant", Content |-> <<"A", "A">>]

(***************************************************************************)
(* Properties of the provider adapters (checked under SpecChat)            *)
(***************************************************************************)
\* tokens put on the channel so far, oldest first
Sent == received \o stream

IsPrefix(p, q) == Len(p) <= Len(q) /\ SubSeq(q, 1, Len(p)) = p

\* the k-th smallest element of a finite set of integers
Kth(S, k) == CHOOSE i \in S : Cardinality({j \in S : j < i}) = k - 1

\* the texts txt(i) of the indices in S, in increasing index order
InOrder(S, txt(_)) == [k \in 1..Cardinality(S) |-> txt(Kth(S, k))]

\* OpenAI framing: the terminator is the first "data: [DONE]" line
OpenAITerminator(b) ==
    LET D == {i \in 1..Len(b) : b[i] = <<"data", "[DONE]">>}
    IN  IF D = {} THEN Len(b) + 1 ELSE Kth(D, 1)

OpenAIExpected(b) ==
    LET T == {i \in 1..(OpenAITerminator(b) - 1) :
                 Len(b[i]) = 3 /\ b[i][2] = "chunk" /\ b[i][3] # ""}
        txt(i) == b[i][3]
    IN  InOrder(T, txt)

\* Anthropic framing: the event name in force at line i is that of the last
\* "event: " line before i with no blank line in between
EventNameAt(b, i) ==
    LET E == {j \in 1..(i - 1) :
                 IsEvent(b[j]) /\ \A k \in (j + 1)..(i - 1) : b[k] # <<"blank">>}
    IN  IF E = {} THEN "" ELSE b[Kth(E, Cardinality(E))][2]

\* the terminator is the first data line of a message_stop event
AnthropicTerminator(b) ==
    LET D == {i \in 1..Len(b) :
                 IsData(b[i]) /\ EventNameAt(b, i) = "message_stop"}
    IN  IF D = {} THEN Len(b) + 1 ELSE Kth(D, 1)

AnthropicExpected(b) ==
    LET T == {i \in 1..(AnthropicTerminator(b) - 1) :
                 /\ Len(b[i]) = 3 /\ b[i][2] = "delta" /\ b[i][3] # ""
                 /\ EventNameAt(b, i) = "content_block_delta"}
        txt(i) == b[i][3]
    IN  InOrder(T, txt)

Expected == IF vendor = "openai" THEN OpenAIExpected(body)
            ELSE AnthropicExpected(body)

\* C1: on every exit path of Chat the output channel is closed exactly once
\* (closed when and only when Chat has returned, never twice), and no token
\* is put on the channel once it is closed.
C1_ClosedExactlyOnce ==
    /\ [](closed <= 1 /\ (pc = "returned" <=> closed = 1))
    /\ [][closed >= 1 => Len(Sent') = Len(Sent)]_vars

\* C1 witness: Chat left through the cancellation path after it had sent
\* tokens, and the channel is closed.
C1_Witness ==
    /\ pc = "returned" /\ result = Canceled /\ closed = 1
    /\ Len(Sent) >= 1

\* the consumer cancelled after it had received the first token, while Chat
\* was still running
CancelledAfterFirstToken ==
    cancelMark.set /\ cancelMark.running /\ cancelMark.recv >= 1

\* C2 (as stated): after such a cancellation the consumer is handed no
\* further token, and Chat returns context.Canceled with the channel closed.
C2_Original ==
    CancelledAfterFirstToken =>
        /\ Len(received) = cancelMark.recv
        /\ pc = "returned" => (result = Canceled /\ closed = 1)

\* C2 (amended): after such a cancellation the adapter puts at most one more
\* token on the channel; when Chat returns, the channel is closed and the
\* result is context.Canceled, or nil if Chat met the terminator or the end
\* of the stream without reading a further line.  Tokens queued before the
\* cancellation may still reach the consumer.
C2_CancelStopsChat ==
    CancelledAfterFirstToken =>
        /\ Len(Sent) <= cancelMark.sent + 1
        /\ pc = "returned" =>
              /\ closed = 1
              /\ result \in {Canceled, Nil}
              /\ result = Nil => pos = cancelMark.pos

\* C2 witness: cancelled after the first token, one more token was sent by
\* the racing select, and Chat then returned context.Canceled.
C2_Witness ==
    /\ CancelledAfterFirstToken
    /\ pc = "returned" /\ result = Canceled
    /\ Len(Sent) = cancelMark.sent + 1

\* C3: the tokens put on the channel are always a prefix of the non-empty
\* text deltas of the valid chunks before the terminator, in stream order,
\* and are exactly that sequence once Chat has returned without error; the
\* consumer receives them in that order.
C3_TokenOrder ==
    /\ IsPrefix(Sent, Expected)
    /\ (pc = "returned" /\ result = Nil) => Sent = Expected
    /\ (pc = "returned" /\ result = Nil /\ stream = <<>>) => received = Expected

\* C3 witness: a completed stream of two different tokens, fully received.
C3_Witness ==
    /\ pc = "returned" /\ result = Nil /\ stream = <<>>
    /\ Len(received) = 2 /\ received[1] # received[2]

\* the error the status mapping of section 4.2 prescribes
MappedError(s, b) ==
    CASE s = 401 -> [kind |-> "auth", status |-> 0, body |-> ""]
      [] s = 429 -> [kind |-> "ratelimit", status |-> 0, body |-> ""]
      [] s >= 500 -> [kind |-> "service", status |-> 0, body |-> ""]
      [] OTHER -> [kind |-> "api", status |-> s, body |-> b]

HTTPErrorKinds == {"auth", "ratelimit", "service", "api"}

\* the response is treated as an error: Chat has returned the mapped error
\* and no token was sent
TreatedAsError ==
    /\ pc = "returned"
    /\ result = MappedError(resp.status, resp.body)
    /\ Sent = <<>>

\* C10 (as stated): every 2xx response is decoded as a token stream, every
\* other one yields the mapped error and no token.
C10_Original ==
    resp.status # 0 =>
        IF resp.status \in 200..299
           THEN result.kind \notin HTTPErrorKinds
           ELSE TreatedAsError

\* C10 (amended): only status 200 is decoded as a token stream; every other
\* status, the other 2xx included, yields the mapped error (401 auth, 429
\* rate-limited, >= 500 service, else the generic error with status and
\* body) and no token.
C10_StatusMapping ==
    resp.status # 0 =>
        IF resp.status = 200
           THEN result.kind \notin HTTPErrorKinds
           ELSE TreatedAsError

\* C10 witness: a 201 response was answered with the generic API error that
\* carries the status and the body.
C10_Witness ==
    /\ resp.status = 201 /\ pc = "returned"
    /\ result = [kind |-> "api", status |-> 201, body |-> resp.body]

\* a data line whose payload is not a usable chunk: invalid JSON, an empty
\* choice list, a missing delta, an invalid nested delta
Malformed(l) == IsData(l) /\ l[2] \in {"bad", "nochoice", "nodelta", "baddelta"}

\* a data line that carries a token in a well-formed chunk
Valid(l) == IsData(l) /\ Len(l) = 3 /\ l[2] \in {"chunk", "delta"} /\ l[3] # ""

\* Chat is about to process a malformed chunk (a data line of a message_stop
\* event is the terminator, whatever its payload)
AtMalformed ==
    /\ pc = "line"
    /\ Malformed(body[pos])
    /\ vendor = "anthropic" => EventNameAt(body, pos) # "message_stop"

\* the conditions that abort a Chat call
FatalKinds == {"canceled", "send-failed", "read-failed"} \cup HTTPErrorKinds

\* C11: a malformed chunk never aborts the stream and is never surfaced as an
\* error: processing it sends no token and lets Chat go on with the next line,
\* the only errors Chat returns are the fatal ones, and a Chat that returns nil
\* has forwarded every valid chunk before the terminator.
C11_MalformedSkipped ==
    /\ [][AtMalformed => /\ pc' \in {"line", "scan"}
                         /\ Sent' = Sent
                         /\ result' = Pending
                         /\ closed' = 0]_vars
    /\ [](pc = "returned" => result.kind \in {"nil"} \cup FatalKinds)
    /\ []((pc = "returned" /\ result = Nil) => Len(Sent) = Len(Expected))

\* C11 witness: a malformed chunk was followed by a valid one, whose token
\* was forwarded, and Chat returned nil.
C11_Witness ==
    /\ pc = "returned" /\ result = Nil
    /\ \E i, j \in 1..Len(body) :
         /\ i < j /\ j <= pos
         /\ Malformed(body[i]) /\ Valid(body[j])
         /\ vendor = "anthropic" => EventNameAt(body, i) = "content_block_delta"
         /\ received = <<body[j][3]>>

\* Chat (OpenAI) is about to process a line "data: [DONE]"
AtDone == vendor = "openai" /\ pc = "line" /\ body[pos] = <<"data", "[DONE]">>

\* C12: in the OpenAI adapter processing the first "data: [DONE]" line makes
\* Chat return nil without sending anything, no line after it is ever read,
\* and on the stream "data: [DONE]", "" no token is sent and a Chat that
\* processed the sentinel returned nil.
C12_DoneEndsStream ==
    /\ [][AtDone => /\ Sent' = Sent
                    /\ \/ pc' = "line" /\ result' = Pending
                       \/ pc' = "returned" /\ result' = Nil]_vars
    /\ [](vendor = "openai" => pos <= OpenAITerminator(body))
    /\ []((vendor = "openai" /\ body = <<<<"data", "[DONE]">>, <<"blank">>>>) =>
             /\ Sent = <<>>
             /\ (pc = "returned" /\ pos = 1 /\ result # Canceled) => result = Nil)

\* C12 witness: a chunk follows the sentinel; Chat returned nil at the
\* sentinel and the chunk's token was never sent.
C12_Witness ==
    /\ vendor = "openai" /\ pc = "returned" /\ result = Nil
    /\ pos < Len(body)
    /\ body[pos] = <<"data", "[DONE]">>
    /\ Valid(body[pos + 1])
    /\ Len(Sent) = pos - 1

\* Chat (Anthropic) is about to process the data line of a message_stop event
AtStop ==
    /\ vendor = "anthropic" /\ pc = "line"
    /\ IsData(body[pos]) /\ EventNameAt(body, pos) = "message_stop"

\* C13: in the Anthropic adapter processing a message_stop event (its data
\* line) makes Chat return nil without sending anything, and no line after
\* it is ever read, so nothing that follows the event is forwarded.
C13_MessageStopEndsStream ==
    /\ [][AtStop => /\ Sent' = Sent
                    /\ \/ pc' = "line" /\ result' = Pending
                       \/ pc' = "returned" /\ result' = Nil]_vars
    /\ [](vendor = "anthropic" => pos <= AnthropicTerminator(body))
    /\ []((vendor = "anthropic" /\ AnthropicTerminator(body) <= Len(body)) =>
             \A k \in 1..Len(Sent) : \E i \in 1..(AnthropicTerminator(body) - 1) :
                 Valid(body[i]) /\ body[i][3] = Sent[k])

\* C13 witness: a token-carrying data line follows the message_stop event;
\* Chat returned nil at the event and sent nothing.
C13_Witness ==
    /\ vendor = "anthropic" /\ pc = "returned" /\ result = Nil
    /\ pos = AnthropicTerminator(body) /\ pos < Len(body)
    /\ Valid(body[pos + 1])
    /\ Sent = <<>>

\* C14: in the Anthropic adapter a line leads to a send exactly when it is a
\* data line of a content_block_delta event whose nested delta text is not
\* empty, and the token is that text; a line of an event of any other name
\* (message_stop apart) sends nothing, returns nothing and lets Chat go on.
C14_OnlyContentDelta ==
    [][(vendor = "anthropic" /\ pc = "line" /\ pc' # "line") =>
          /\ pc' = "send" <=> /\ Valid(body[pos])
                              /\ EventNameAt(body, pos) = "content_block_delta"
          /\ pc' = "send" => tok' = body[pos][3]
          /\ EventNameAt(body, pos) \notin {"content_block_delta", "message_stop"}
                => pc' = "scan" /\ result' = Pending /\ Sent' = Sent]_vars

\* C14 witness: a well-formed text delta arrived under the event name ping;
\* Chat read it, sent nothing and returned nil at the end of the stream.
C14_Witness ==
    /\ vendor = "anthropic" /\ pc = "returned" /\ result = Nil
    /\ body = <<<<"event", "ping">>, <<"data", "delta", "A">>>>
    /\ pos = 2 /\ Sent = <<>>

\* C34: in a one-shot run with both goroutines scheduled fairly, Chat
\* eventually returns and closes the channel, the consumer drains it, and
\* runOneShot gets Chat's result from the error channel, whatever the number
\* of tokens and the size of the buffer.
C34_OneShotCompletes ==
    <>(pc = "returned" /\ closed = 1 /\ stream = <<>> /\ caller = "done")

\* C34 witness: a stream with more tokens than the buffer holds was
\* delivered in full and runOneShot returned.
C34_Witness ==
    /\ caller = "done" /\ result = Nil /\ closed = 1
    /\ Len(received) > ChanCap

\* the Anthropic decoder finishes the line it has read
AnthropicLineStep == vendor = "anthropic" /\ pc = "line" /\ pc' # "line"

\* C39: in the Anthropic decoder the event name is that of the last "event: "
\* line since the last blank line, and empty after a blank line; a data line
\* read under an empty event name, and a blank line, send nothing and do not
\* end the stream.
C39_EventNameScope ==
    /\ []((vendor = "anthropic" /\ pc = "line") =>
              eventType = EventNameAt(body, pos))
    /\ []((vendor = "anthropic" /\ pc \in {"scan", "send"}) =>
              eventType = EventNameAt(body, pos + 1))
    /\ [][(AnthropicLineStep /\ body[pos] = <<"blank">>) =>
              /\ eventType' = ""
              /\ pc' = "scan" /\ result' = Pending /\ Sent' = Sent]_vars
    /\ [][(AnthropicLineStep /\ IsData(body[pos]) /\ eventType = "") =>
              /\ eventType' = ""
              /\ pc' = "scan" /\ result' = Pending /\ Sent' = Sent]_vars

\* C39 witness: a blank line came between "event: content_block_delta" and a
\* token-carrying data line; the data line was read under the empty name,
\* nothing was sent, and Chat went on to the end of the stream.
C39_Witness ==
    /\ vendor = "anthropic" /\ pc = "returned" /\ result = Nil
    /\ body = <<<<"event", "content_block_delta">>, <<"blank">>,
                <<"data", "delta", "A">>>>
    /\ pos = 3 /\ eventType = "" /\ Sent = <<>>

\* Chat returns because client.Do or the reading of the body failed
FailureStep ==
    /\ pc' = "returned"
    /\ \/ pc = "do" /\ resp' = resp
       \/ pc = "scan" /\ pos' = pos /\ result' # Nil

\* C22: when the HTTP exchange or the reading of the body fails while the
\* context is cancelled (also when it was cancelled before Chat started),
\* Chat returns the cancellation error and not a transport error, closes the
\* channel, and sends nothing then or afterwards.
C22_CancelBeatsTransport ==
    /\ [][FailureStep => /\ ctxDone => result' = Canceled
                         /\ ~ctxDone => result'.kind \in {"send-failed", "read-failed"}
                         /\ closed' = 1
                         /\ Sent' = Sent]_vars
    /\ [][pc = "returned" => Sent' = Sent]_vars
    /\ [](result.kind \in {"send-failed", "read-failed"} =>
             ~(cancelMark.set /\ cancelMark.running))

\* C22 witness: the context was cancelled before the request was sent, the
\* exchange failed, and Chat returned context.Canceled with the channel
\* closed and nothing sent.
C22_Witness ==
    /\ cancelMark.set /\ cancelMark.running /\ cancelMark.pos = 0
    /\ pc = "returned" /\ resp.status = 0
    /\ result = Canceled /\ closed = 1 /\ Sent = <<>>

\* C29: once runOneShot has returned after a successful exchange, the
\* conversation is in the store.
C29_ExchangePersisted ==
    (caller = "done" /\ result = Nil) => conversations # <<>>

(***************************************************************************)
(* Properties of sse.Reader (checked under SpecSSE)                        *)
(***************************************************************************)
\* events put on the channel so far, oldest first
Emitted == delivered \o events

\* the lines of a whole input that the scanner gets in a single read
RECURSIVE WholeLines(_)
WholeLines(data) ==
    IF data = <<>> THEN <<>>
    ELSE IF \E i \in 1..Len(data) : data[i] = "\n"
       THEN LET i == IndexNewline(data)
            IN  <<dropCR(SubSeq(data, 1, i - 1))>>
                    \o WholeLines(SubSeq(data, i + 1, Len(data)))
    ELSE <<dropCR(data)>>

\* the value of a field line: what follows the prefix, less one leading space
FieldValue(line, prefix) ==
    LET v == SubSeq(line, Len(prefix) + 1, Len(line))
    IN  IF v # <<>> /\ v[1] = " " THEN Tail(v) ELSE v

\* t is v without its leading and trailing whitespace
IsTrimmed(t, v) ==
    /\ t = <<>> \/ (~IsSpace(t[1]) /\ ~IsSpace(t[Len(t)]))
    /\ \E i \in 1..(Len(v) + 1) :
         /\ i + Len(t) - 1 <= Len(v)
         /\ t = SubSeq(v, i, i + Len(t) - 1)
         /\ \A k \in 1..Len(v) : (k < i \/ k > i + Len(t) - 1) => IsSpace(v[k])

\* the events of a sequence of lines, block by block: ev is the event under
\* construction, out the events completed so far
RECURSIVE EventsOf(_, _, _)
EventsOf(lines, ev, out) ==
    IF lines = <<>>
       THEN IF ev.Data # <<>> THEN Append(out, ev) ELSE out
    ELSE LET l == Head(lines) IN
         IF l = <<>>
            THEN EventsOf(Tail(lines), NoEvent,
                          IF ev.Data # <<>> THEN Append(out, ev) ELSE out)
         ELSE IF HasPrefix(l, <<":">>) THEN EventsOf(Tail(lines), ev, out)
         ELSE IF HasPrefix(l, EventPrefix)
            THEN EventsOf(Tail(lines),
                          [ev EXCEPT !.Type = TrimSpace(SubSeq(l, 7, Len(l)))], out)
         ELSE IF HasPrefix(l, DataPrefix)
            THEN EventsOf(Tail(lines),
                          [ev EXCEPT !.Data = IF @ = <<>>
                                                 THEN FieldValue(l, DataPrefix)
                                                 ELSE @ \o <<"\n">>
                                                        \o FieldValue(l, DataPrefix)],
                          out)
         ELSE EventsOf(Tail(lines), ev, out)

\* what Read emits when the whole input arrives in one read
OneRead == EventsOf(WholeLines(input), NoEvent, <<>>)

\* the prefixes the adapters test for: the field name, the colon and a space
InlineDataPrefix == DataPrefix \o <<" ">>
InlineEventPrefix == EventPrefix \o <<" ">>

\* the payloads OpenAI.parseSSEStream hands to its decoder, line by line
RECURSIVE OpenAIFraming(_, _)
OpenAIFraming(lines, out) ==
    IF lines = <<>> THEN out
    ELSE LET line == Head(lines) IN
         IF line = <<>> \/ HasPrefix(line, CommentPrefix)
            THEN OpenAIFraming(Tail(lines), out)
         ELSE IF ~HasPrefix(line, InlineDataPrefix)
            THEN OpenAIFraming(Tail(lines), out)
         ELSE OpenAIFraming(Tail(lines),
                            Append(out, TrimPrefix(line, InlineDataPrefix)))

\* the payloads Anthropic.parseSSEStream reads, each with the event name it
\* is paired with; et is the decoder's eventType
RECURSIVE AnthropicFraming(_, _, _)
AnthropicFraming(lines, et, out) ==
    IF lines = <<>> THEN out
    ELSE LET line == Head(lines) IN
         IF HasPrefix(line, InlineEventPrefix)
            THEN AnthropicFraming(Tail(lines), TrimPrefix(line, InlineEventPrefix), out)
         ELSE IF HasPrefix(line, InlineDataPrefix)
            THEN AnthropicFraming(Tail(lines), et,
                    Append(out, [Type |-> et,
                                 Data |-> TrimPrefix(line, InlineDataPrefix)]))
         ELSE AnthropicFraming(Tail(lines), IF line = <<>> THEN <<>> ELSE et, out)

\* C30: for every input (none here holds a terminator) the payloads an
\* adapter's inline pass decodes, with the event names the Anthropic pass
\* pairs them with, are the events sse.Reader.Read emits for that input.
C30_FramingEquivalent ==
    (rpc = "returned" /\ rerr = Nil) =>
        /\ OpenAIFraming(WholeLines(input), <<>>) =
               [i \in 1..Len(Emitted) |-> Emitted[i].Data]
        /\ AnthropicFraming(WholeLines(input), <<>>, <<>>) = Emitted

\* C15: however the underlying reader splits the input into reads, the events
\* put on the channel are a prefix of those of the single-read parse, and are
\* exactly those once Read has returned nil.
C15_ChunkIndependence ==
    /\ IsPrefix(Emitted, OneRead)
    /\ (rpc = "returned" /\ rerr = Nil) => Emitted = OneRead

\* C15 witness: an event has been emitted and the scanner now holds the first
\* two bytes of a data: line, the read having ended inside the field name.
C15_Witness ==
    /\ rpc = "scan" /\ src = "open"
    /\ Len(Emitted) >= 1
    /\ Buffered = <<"d", "a">>
    /\ fed < Len(input)

\* Read takes a line that is not blank through the loop body
TakesField == start' # start /\ ~rctx /\ NextToken.token # <<>>

\* C16: a data: line appends its value, less at most one leading space, to
\* the event's data, after a newline exactly when the data was not empty; an
\* event: line sets the type to its value without surrounding whitespace; a
\* line starting with ":" changes nothing; the other field is left alone.
C16_FieldLines ==
    [][TakesField =>
          LET line == NextToken.token IN
          IF HasPrefix(line, <<":">>) THEN currentEvent' = currentEvent
          ELSE IF HasPrefix(line, DataPrefix)
             THEN /\ currentEvent'.Type = currentEvent.Type
                  /\ currentEvent'.Data =
                        IF currentEvent.Data = <<>>
                           THEN FieldValue(line, DataPrefix)
                           ELSE currentEvent.Data \o <<"\n">>
                                  \o FieldValue(line, DataPrefix)
          ELSE IF HasPrefix(line, EventPrefix)
             THEN /\ currentEvent'.Data = currentEvent.Data
                  /\ IsTrimmed(currentEvent'.Type,
                               SubSeq(line, Len(EventPrefix) + 1, Len(line)))
          ELSE currentEvent' = currentEvent]_vars

\* C16 witness: "event: t ", "data: x" and "data:  y" were read: the type is
\* "t" and the data "x", a newline, " y".
C16_Witness ==
    currentEvent = [Type |-> <<"t">>, Data |-> <<"x", "\n", " ", "y">>]

\* C17: at a blank line the current event is sent if and only if its data is
\* not empty, and type and data are empty again before the next line is
\* read; no event on the channel has empty data.
C17_BlankLine ==
    /\ [][(start' # start /\ ~rctx /\ NextToken.token = <<>>) =>
             /\ Emitted' = Emitted
             /\ IF currentEvent.Data # <<>>
                   THEN rpc' = "send" /\ currentEvent' = currentEvent
                   ELSE rpc' = "scan" /\ currentEvent' = NoEvent]_vars
    /\ [][(rpc = "send" /\ rpc' # "send") =>
             \/ rpc' = "returned" /\ rerr' = Canceled /\ Emitted' = Emitted
             \/ /\ rpc' = "scan"
                /\ Emitted' = Append(Emitted, currentEvent)
                /\ currentEvent' = NoEvent]_vars
    /\ [](\A k \in 1..Len(Emitted) : Emitted[k].Data # <<>>)

\* C17 witness: a block with a type and no data was dropped at its blank
\* line, and the event of the next block was emitted without that type.
C17_Witness ==
    /\ rpc = "returned" /\ rerr = Nil
    /\ HasPrefix(input, EventPrefix \o <<" ", "t", " ", "\n", "\n">>)
    /\ Emitted = <<[Type |-> <<>>, Data |-> <<"x">>]>>

\* C18: when the input has ended without a failure, Read sends the pending
\* event if its data is not empty, exactly once, and then returns nil
\* (unless the cancellation wins the send); with nothing pending it returns
\* nil at once; an empty input yields no event and nil.
C18_FlushAtEnd ==
    /\ [][(rpc = "scan" /\ src = "eof" /\ ~NextToken.found /\ rpc' # "scan") =>
             /\ Emitted' = Emitted
             /\ IF currentEvent.Data # <<>>
                   THEN rpc' = "flush"
                   ELSE rpc' = "returned" /\ rerr' = Nil]_vars
    /\ [][(rpc = "flush" /\ rpc' # "flush") =>
             /\ rpc' = "returned"
             /\ \/ rerr' = Canceled /\ rctx /\ Emitted' = Emitted
                \/ rerr' = Nil /\ Emitted' = Append(Emitted, currentEvent)]_vars
    /\ []((input = <<>> /\ rpc = "returned" /\ src = "eof") =>
             rerr = Nil /\ Emitted = <<>>)

\* C18 witness: the input "data: x" has no line end at all; its event was
\* emitted once and Read returned nil.
C18_Witness ==
    /\ input = DataPrefix \o <<" ", "x">>
    /\ rpc = "returned" /\ rerr = Nil
    /\ Emitted = <<[Type |-> <<>>, Data |-> <<"x">>]>>

\* the context was cancelled while Read was running
CancelledWhileReading == rmark.set /\ rmark.running

\* C19 (as stated): after the cancellation no event is emitted and Read
\* returns context.Canceled.
C19_Original ==
    CancelledWhileReading =>
        /\ Len(Emitted) = rmark.sent
        /\ rpc = "returned" => rerr = Canceled

\* C19 (amended): after the cancellation Read emits at most one more event
\* (the send may win the select against ctx.Done()); when it returns, the
\* result is context.Canceled itself, or nil if Read reached the end of the
\* input without reading another line; it is never a wrapped IO error.
C19_CancelStopsRead ==
    CancelledWhileReading =>
        /\ Len(Emitted) <= rmark.sent + 1
        /\ rpc = "returned" =>
              /\ rerr \in {Canceled, Nil}
              /\ rerr = Nil => start = rmark.start

\* C19 witness: cancelled while Read was at a send; the send won, and the
\* next line made Read return context.Canceled.
C19_Witness ==
    /\ CancelledWhileReading
    /\ rpc = "returned" /\ rerr = Canceled
    /\ Len(Emitted) = rmark.sent + 1
    /\ start > rmark.start

\* C20: Read returns nil only at a normal end of the input; when the
\* underlying reader has failed and the buffered lines are used up, Read
\* returns the context's error if the context is cancelled and the wrapped
\* IO failure otherwise; it returns nothing else.
C20_ReadResult ==
    /\ [](rpc = "returned" =>
             /\ rerr \in {Nil, Canceled, Transport("read-sse")}
             /\ rerr = Nil => src = "eof"
             /\ rerr = Transport("read-sse") => src = "failed"
             /\ rerr = Canceled => rctx)
    /\ [][(rpc = "scan" /\ src = "failed" /\ ~NextToken.found) =>
             \/ rpc' = "scan"
             \/ /\ rpc' = "returned"
                /\ rerr' = IF rctx THEN Canceled ELSE Transport("read-sse")]_vars
    /\ [][(rpc = "scan" /\ src = "eof" /\ ~NextToken.found /\ rpc' = "returned")
             => rerr' = Nil]_vars

\* C20 witness: the underlying reader failed after an event had been
\* emitted, the context was cancelled before Read looked at the failure,
\* and Read returned context.Canceled.
C20_Witness ==
    /\ rpc = "returned" /\ src = "failed" /\ rerr = Canceled
    /\ start = fed /\ rmark.start = start
    /\ currentEvent.Data = <<>> /\ Emitted # <<>>

\* C33: once the context is cancelled, each of the three decoders puts at most
\* one further token or event on its channel, however the cancellation falls
\* between the per-line check and the send.
C33_AtMostOneAfterCancel ==
    /\ (pc # "idle" /\ cancelMark.set) => Len(Sent) <= cancelMark.sent + 1
    /\ (rpc # "idle" /\ rmark.set) => Len(Emitted) <= rmark.sent + 1

\* C33 witness: the Anthropic decoder was cancelled before it had sent
\* anything, with a line already past its check; it sent that line's token
\* and returned context.Canceled at the next line.
C33_Witness ==
    /\ vendor = "anthropic"
    /\ cancelMark.set /\ cancelMark.running /\ cancelMark.sent = 0
    /\ pc = "returned" /\ result = Canceled
    /\ Len(Sent) = 1 /\ pos > cancelMark.pos

\* C21: Read never closes the events channel, whatever the way it returns,
\* and the only thing it does to the channel is to send the current event.
C21_ChannelLeftOpen ==
    /\ [](eventsClosed = 0)
    /\ [][Emitted' = Emitted \/ Emitted' = Append(Emitted, currentEvent)]_vars

\* C21 witness: Read returned the wrapped IO failure after it had emitted an
\* event, and the channel is still open.
C21_Witness ==
    /\ rpc = "returned" /\ rerr = Transport("read-sse")
    /\ Emitted # <<>>
    /\ eventsClosed = 0

(***************************************************************************)
(* Properties of stream.Writer (checked under SpecWriter)                  *)
(***************************************************************************)

Contains(q, t) ==
    \E k \in 0..(Len(t) - Len(q)) :
        \A i \in 1..Len(q) : Lower(t[k + i]) = Lower(q[i])

ContainsTable == [q \in Searches |-> {t \in StoredTexts : Contains(q, t)}]

\* the conversations whose title or one of whose messages contains q
Containing(q) ==
    {id \in 1..Len(conversations) :
        \/ conversations[id].title \in ContainsTable[q]
        \/ \E r \in RowsOf(id) : messages[r].content \in ContainsTable[q]}

Min(a, b) == IF a <= b THEN a ELSE b

NoDuplicates(r) == \A i, j \in 1..Len(r) : i # j => r[i].ID # r[j].ID

\* C23: for a non-empty search string ListConversations returns exactly the
\* conversations, up to limit, whose title or one of whose messages contains
\* the string as a case-insensitive substring, each once, and no other.
C23_SearchIsSubstring ==
    \A q \in Searches : \A limit \in {l \in Limits : l >= 0} :
        \A r \in ListResults(limit, q) :
            /\ \A i \in 1..Len(r) : r[i].ID \in Containing(q)
            /\ NoDuplicates(r)
            /\ Len(r) = Min(limit, Cardinality(Containing(q)))

Descending(r) == \A i, j \in 1..Len(r) : i < j => r[i].CreatedAt >= r[j].CreatedAt

\* the searches the order and the limit are checked with
ListSearches == {<<>>, <<"x", "x">>}

\* C24 as stated: newest first, never more than limit conversations, and all
\* of them under an empty search when fewer than limit are stored.
C24_Original ==
    \A limit \in Limits : \A q \in ListSearches :
        \A r \in ListResults(limit, q) :
            /\ Descending(r)
            /\ Len(r) <= limit
            /\ (q = <<>> /\ Len(conversations) < limit) =>
                   {r[i].ID : i \in 1..Len(r)} = 1..Len(conversations)

\* C24 (amended): newest first; for limit >= 0 never more than limit
\* conversations, and all the stored ones under an empty search when at most
\* limit are stored; a negative limit is no limit: all the selected
\* conversations are returned.
C24_NewestFirstCapped ==
    \A limit \in Limits : \A q \in ListSearches :
        \A r \in ListResults(limit, q) :
            /\ Descending(r)
            /\ NoDuplicates(r)
            /\ limit >= 0 => Len(r) = Min(limit, Cardinality(Selected(q)))
            /\ limit < 0 => Len(r) = Cardinality(Selected(q))
            /\ (q = <<>> /\ (limit < 0 \/ Len(conversations) <= limit)) =>
                   {r[i].ID : i \in 1..Len(r)} = 1..Len(conversations)

\* C24 witness: two conversations created at different times are stored, a
\* listing with limit 1 returns only the newer one and a listing with limit
\* 3 returns both, newer first.
C24_Witness ==
    /\ Len(conversations) = 2
    /\ conversations[1].created_at < conversations[2].created_at
    /\ \A r \in ListResults(1, <<>>) : Len(r) = 1 /\ r[1].ID = 2
    /\ \A r \in ListResults(3, <<>>) : Len(r) = 2 /\ r[1].ID = 2 /\ r[2].ID = 1

RECURSIVE CharLen(_)
CharLen(s) ==
    IF s = <<>> THEN 0
    ELSE (IF Head(s) = ContByte THEN 0 ELSE 1) + CharLen(Tail(s))

\* the first k characters of a text
RECURSIVE CharPrefix(_, _)
CharPrefix(s, k) ==
    IF s = <<>> THEN <<>>
    ELSE IF Head(s) # ContByte /\ k = 0 THEN <<>>
    ELSE <<Head(s)>> \o CharPrefix(Tail(s), IF Head(s) = ContByte THEN k ELSE k - 1)

\* C27: the title truncation returns the whitespace-normalized text when it
\* has at most maxLen characters, and otherwise its first maxLen-3 characters
\* followed by "...", a result of exactly maxLen characters.
C27_TruncatesByCharacters ==
    value.fn = "truncateTitle" =>
        LET n == Join(Fields(arg.s), <<" ">>)
        IN  IF CharLen(n) > arg.maxLen
               THEN /\ value.s = CharPrefix(n, arg.maxLen - 3) \o <<".", ".", ".">>
                    /\ CharLen(value.s) = arg.maxLen
               ELSE value.s = n

\* the contents of the system messages of a list, in order
SystemContents(msgs) ==
    LET sys == SelectSeq(msgs, LAMBDA m : m.Role = "system")
    IN  [i \in 1..Len(sys) |-> sys[i].Content]

\* a list of texts without its leading empty texts
RECURSIVE DropLeadingEmpty(_)
DropLeadingEmpty(ts) ==
    IF ts # <<>> /\ Head(ts) = <<>> THEN DropLeadingEmpty(Tail(ts)) ELSE ts

\* the request's messages are the non-system messages in their order
NonSystemKept ==
    /\ value.req.Messages = SelectSeq(arg.msgs, LAMBDA m : m.Role # "system")
    /\ \A i \in 1..Len(value.req.Messages) : value.req.Messages[i].Role # "system"

\* C28 as stated: the system field is the contents of all the system
\* messages joined by a blank line, and the messages list is the non-system
\* messages in their original order.
C28_Original ==
    value.fn = "Anthropic.Chat" =>
        /\ NonSystemKept
        /\ value.req.System = Join(SystemContents(arg.msgs), <<"\n", "\n">>)

\* C28 (amended): the messages list is the non-system messages in their
\* original order, and the system field is the contents of the system
\* messages from the first non-empty one on, in order, joined by a blank line
\* (system messages with empty content at the front add no separator).
C28_SystemJoined ==
    value.fn = "Anthropic.Chat" =>
        /\ NonSystemKept
        /\ value.req.System =
               Join(DropLeadingEmpty(SystemContents(arg.msgs)), <<"\n", "\n">>)

\* C28 witness: two non-empty system messages around a user message were
\* joined by a blank line in their order and removed from the list.
C28_Witness ==
    /\ value.fn = "Anthropic.Chat"
    /\ Len(arg.msgs) = 3
    /\ arg.msgs[1] = [Role |-> "system", Content |-> <<"B">>]
    /\ arg.msgs[2].Role = "user"
    /\ arg.msgs[3] = [Role |-> "system", Content |-> <<"A">>]
    /\ value.req.System = <<"B", "\n", "\n", "A">>
    /\ Len(value.req.Messages) = 1

(***************************************************************************)
(* Properties of the conversation store (checked under SpecStore)          *)
(***************************************************************************)
\* this step is the return of a SaveConversation call on tx.h
SaveReturns == tx.active /\ ~tx'.active
SaveSucceeds == SaveReturns /\ ret'[tx.h].err = "nil"
SaveFails == SaveReturns /\ ret'[tx.h].err # "nil"

\* the positions of the identifier-less messages of a list
NewIn(msgs) == {i \in 1..Len(msgs) : msgs[i].ID = 0}

\* a messages row without its identifier and timestamp
RowData(r) == [conversation_id |-> r.conversation_id, role |-> r.role,
               content |-> r.content]

\* the rows a table gained in this step
Gained(old, new) == SubSeq(new, Len(old) + 1, Len(new))

\* C4: a SaveConversation of a value that was saved successfully before and
\* has not been changed since adds no message row, so n identifier-less
\* messages saved twice leave n rows.
C4_IdempotentSave ==
    [][(SaveSucceeds /\ ~dirty[tx.h]) => messages' = messages]_vars

\* C5: a failed SaveConversation leaves both tables as they were, and the
\* tables readers see change only in the step in which a save commits, which
\* adds all the rows of that save at once.
C5_AllOrNothing ==
    [][/\ SaveFails => (conversations' = conversations /\ messages' = messages)
       /\ <<conversations, messages>>' # <<conversations, messages>> =>
             /\ SaveSucceeds
             /\ Len(messages') - Len(messages)
                   = Cardinality(NewIn(mem[tx.h].Messages))
             /\ Len(conversations') - Len(conversations)
                   = (IF tx.created THEN 1 ELSE 0)]_vars

\* C5 witness: a save failed after it had inserted its conversation row (the
\* value carries the identifier it was given), and the store holds no row.
C5_Witness ==
    \E h \in Handles :
        /\ ret[h].err = "failed" /\ mem[h].ID # 0
        /\ conversations = <<>> /\ messages = <<>>

\* C6: a successful SaveConversation adds exactly one row per message without
\* identifier, in list order, with the conversation's identifier, the role
\* and the content, and adds nothing for the messages that carry one.
C6_InsertsExactlyNew ==
    [][SaveSucceeds =>
          LET c == mem[tx.h]
              row(i) == [conversation_id |-> c.ID, role |-> c.Messages[i].Role,
                         content |-> c.Messages[i].Content]
              added == Gained(messages, messages')
          IN  /\ SubSeq(messages', 1, Len(messages)) = messages
              /\ [k \in 1..Len(added) |-> RowData(added[k])]
                    = InOrder(NewIn(c.Messages), row)]_vars

\* C6 witness: a list of one fetched message and one new message was saved,
\* and the conversation has two rows.
C6_Witness ==
    \E h \in Handles :
        /\ ret[h].err = "nil" /\ ~dirty[h]
        /\ Len(mem[h].Messages) = 2
        /\ mem[h].Messages[1].ID # 0 /\ mem[h].Messages[2].ID = 0
        /\ Cardinality(RowsOf(mem[h].ID)) = 2

\* C7: a successful save of a conversation without identifier creates exactly
\* one conversation row and assigns its positive identifier to the value; a
\* save of a conversation that has an identifier returns that identifier and
\* creates no row; an assigned identifier never changes; and the identifiers
\* returned for distinct conversations differ.
C7_IdentifierFixed ==
    /\ [](\A h1, h2 \in Handles :
             (h1 # h2 /\ ret[h1].err = "nil" /\ ret[h2].err = "nil")
                => ret[h1].id # ret[h2].id)
    /\ [][/\ \A h \in Handles : mem[h].ID # 0 => mem'[h].ID = mem[h].ID
          /\ SaveSucceeds =>
                /\ ret'[tx.h].id = mem[tx.h].ID /\ ret'[tx.h].id > 0
                /\ IF tx.created
                      THEN /\ Len(conversations') = Len(conversations) + 1
                           /\ ret'[tx.h].id = Len(conversations')
                      ELSE conversations' = conversations]_vars

\* the title section 4.4 prescribes for a new conversation
ExpectedTitle(c) ==
    LET U == {i \in 1..Len(c.Messages) : c.Messages[i].Role = "user"}
    IN  IF c.Title # <<>> THEN c.Title
        ELSE IF U = {} THEN <<>>
        ELSE truncateTitle(c.Messages[Kth(U, 1)].Content, TitleLen)

\* C8: a conversation row is created with the caller's title or, without
\* one, the title derived from the first user message, and with the caller's
\* model and provider; no later step changes a stored row.
C8_TitleFixed ==
    [][/\ \A i \in 1..Len(conversations) :
             i <= Len(conversations') /\ conversations'[i] = conversations[i]
       /\ Len(conversations') > Len(conversations) =>
             LET r == conversations'[Len(conversations')]
                 c == mem[tx.h]
             IN  /\ Len(conversations') = Len(conversations) + 1
                 /\ r.title = ExpectedTitle(c)
                 /\ r.model = c.Model /\ r.provider = c.Provider]_vars

\* C8 witness: conversation 1 began with an assistant message followed by a
\* long user message, and its stored title is that message normalised and cut
\* to 50 characters.
C8_Witness ==
    /\ Len(conversations) >= 1 /\ Len(messages) >= 2
    /\ messages[1].conversation_id = 1 /\ messages[1].role = "assistant"
    /\ messages[2].conversation_id = 1 /\ messages[2].role = "user"
    /\ Len(conversations[1].title) = TitleLen
    /\ SubSeq(conversations[1].title, 1, 5) = <<"h", "i", " ", "x", "x">>
    /\ SubSeq(conversations[1].title, 48, 50) = <<".", ".", ".">>

\* C9: whatever GetConversation returns lists the messages in the order in
\* which they were inserted, with non-decreasing creation times.
C9_FetchOrder ==
    \A id \in 1..Len(conversations) : \A r \in GetResults(id) :
        \A i, j \in 1..Len(r.Messages) :
            i < j => /\ r.Messages[i].ID < r.Messages[j].ID
                     /\ r.Messages[i].CreatedAt <= r.Messages[j].CreatedAt

(***************************************************************************)
(* Further properties of the conversation store                           *)
(***************************************************************************)
\* C37: a SaveConversation that returns an error leaves the caller's value as
\* it was before the call: a value that entered the call without identifier
\* leaves it without identifier.
C37_FailedSaveKeepsValue ==
    [][(SaveFails /\ tx.created) => mem'[tx.h].ID = 0]_vars

\* C38: every row of messages carries the identifier of a row of
\* conversations.
C38_MessagesReferToRows ==
    \A i \in 1..Len(messages) :
        \E j \in 1..Len(conversations) :
            conversations[j].id = messages[i].conversation_id

\* C31: with SaveConversation calls on one conversation in flight together,
\* the tables a reader sees change only in the step in which one call commits,
\* and that step adds all the messages of that call and nothing else; a call
\* that fails adds nothing.
C31_ConcurrentSavesAtomic ==
    [][/\ conversations' = conversations
       /\ SaveFails => messages' = messages
       /\ messages' # messages =>
             /\ SaveSucceeds
             /\ SubSeq(messages', 1, Len(messages)) = messages
             /\ Len(messages') - Len(messages) = Len(mem[tx.h].Messages)
             /\ \A k \in (Len(messages) + 1)..Len(messages') :
                   /\ messages'[k].conversation_id = mem[tx.h].ID
                   /\ messages'[k].content
                         = mem[tx.h].Messages[k - Len(messages)].Content]_vars

\* C31 witness: the rows of a call that has committed are in the table, a
\* second call has inserted a row in its open transaction, and a third call
\* has begun meanwhile.
C31_Witness ==
    /\ Len(messages) >= 1
    /\ tx.active
    /\ Len(tx.msgs) > Len(messages)
    /\ begun # {}

====
